---------------------------- MODULE Spec2Model ----------------------------
(***************************************************************************)
(* claude-bot: the orchestration engine of main.go.                        *)
(*                                                                         *)
(* The model covers the tracker, the startup reconciler (ensureLabels,     *)
(* recoverStaleIssues), the poller (pollLoop / poll), the worker pool      *)
(* (worker) and the per-issue pipeline (processIssue) with its deferred    *)
(* compensation.  The hosting service (gh), git and the agent are the      *)
(* environment: every external call either succeeds or fails; once the     *)
(* process context is cancelled every external call fails, so a pipeline   *)
(* that is running at that time returns without further effect.  Triage    *)
(* (cfg.Triage, off by default) is part of TriageSpec only.                *)
(*                                                                         *)
(* Spec is the whole engine; FailSpec is the engine with one worker and    *)
(* transient call failures; LiveSpec is the engine under fair scheduling;  *)
(* PipelineSpec is processIssue alone, called on one issue; TriageSpec is  *)
(* the poller with triage enabled; ContextSpec is the derivation of the    *)
(* branch and the worktree directory; TrackerSpec is the tracker alone.    *)
(* RetrySpec is the poller and one worker on an issue whose agent fails    *)
(* in every run; DrainSpec is the engine with jobs left in the queue at    *)
(* shutdown; ProgressSpec is the poller and one worker under fair          *)
(* scheduling, the context never cancelled and the ticker firing forever.  *)
(***************************************************************************)
EXTENDS Naturals, Integers, Sequences, FiniteSets, TLC

\* ------------------------------------------------------------------ bounds
\* Number of poll ticks a behaviour may contain (pollLoop ticks forever).
MaxTicks == 2
\* Number of external calls that may fail while the context is live.
MaxFail == 1
\* Number of tracker operations in a behaviour of TrackerSpec.
MaxOps == 4

\* --------------------------------------------------------- configuration
\* cfg.Repos, in declared order.
Repos == <<"r1", "r2">>
\* The open issues of the hosting service, by key "<repo>#<number>".
Issues == {"r1#1", "r2#1"}
\* The workers main starts (cfg.Workers goroutines).
Workers == {"w1", "w2"}
\* Capacity of the jobs channel, scaled down from make(chan Issue, 100).
QueueCap == 1
\* cfg.MaxRetries
MaxRetries == 3

IssueLabel == "todo"
WIPLabel == "in-progress"
DoneLabel == "done"
NeedsInfoLabel == "needs-info"
FailedLabel == "failed"
TriageLabel == "triaged"
BotLabels == {IssueLabel, WIPLabel, DoneLabel, NeedsInfoLabel, FailedLabel, TriageLabel}

\* Issue.Repo of an issue key.
RepoOf(k) == IF k = "r1#1" THEN "r1" ELSE "r2"

\* ------------------------------------------------------------- variables
VARIABLES
    inflight,     \* tracker.inflight: the keys currently held
    oplog,        \* history: the tracker operations applied so far (TrackerSpec)
    labels,       \* hosting service: labels[k], the label set of issue k
    comments,     \* hosting service: comments[k], the ordered comment bodies of k
    prs,          \* hosting service: prs[k], number of review requests on k's branch
    pushed,       \* hosting service: pushed[k], number of pushes of k's branch
    repoLabels,   \* hosting service: repoLabels[r], the labels defined in repo r
    wt,           \* file system: wt[k], the worktree directory of k
    jobs,         \* the jobs channel buffer
    closed,       \* the jobs channel has been closed
    cancelled,    \* ctx.Err() != nil
    budget,       \* number of transient failures the environment may still cause
    pool,         \* the workers main starts (cfg.Workers)
    mainpc,       \* position of main
    mrepo,        \* main: index of the repository the reconciler is at
    mlist,        \* main: issues fetched by recoverStaleIssues for the repo
    started,      \* main has started the worker goroutines
    ppc,          \* position of the poller
    prepo,        \* poller: index of the repository of the tick
    fetched,      \* poller: the issues fetched for the repository
    pidx,         \* poller: index in fetched
    ticks,        \* history: number of poll ticks begun
    wpc,          \* wpc[w]: position of worker w
    wjob,         \* wjob[w]: the Issue value the worker holds
    wret,         \* wret[w]: retErr of the running processIssue
    wurl,         \* wurl[w]: prURL of the running processIssue
    hist          \* history record used to state the properties

vars == <<inflight, oplog, labels, comments, prs, pushed, repoLabels, wt, jobs,
          closed, cancelled, budget, pool, mainpc, mrepo, mlist, started, ppc, prepo,
          fetched, pidx, ticks, wpc, wjob, wret, wurl, hist>>

engineVars == <<labels, comments, prs, pushed, repoLabels, wt, jobs, closed,
                cancelled, budget, pool, mainpc, mrepo, mlist, started, ppc, prepo,
                fetched, pidx, ticks, wpc, wjob, wret, wurl, hist>>

\* ---------------------------------------------------------------- tracker
\* Mutant of tryAcquire: the membership test is dropped.
AcquireAlways(infl, key) == [ok |-> TRUE, inflight |-> infl \cup {key}]

\* tracker.tryAcquire: the result and the inflight map after the call.
tryAcquire(infl, key) ==
    IF key \in infl
    THEN [ok |-> FALSE, inflight |-> infl]
    ELSE [ok |-> TRUE, inflight |-> infl \cup {key}]

\* Mutant of release: the delete is dropped.
ReleaseNoop(infl, key) == infl

\* tracker.release: the inflight map after the call.
release(infl, key) == infl \ {key}

\* --------------------------------------------------- TrackerSpec (C1)
\* Any sequence of at most MaxOps tracker operations on the keys.

OpTryAcquire(k) ==
    /\ Len(oplog) < MaxOps
    /\ LET r == tryAcquire(inflight, k)
       IN /\ inflight' = r.inflight
          /\ oplog' = Append(oplog, [op |-> "tryAcquire", key |-> k, res |-> r.ok])
    /\ UNCHANGED engineVars

OpRelease(k) ==
    /\ Len(oplog) < MaxOps
    /\ inflight' = release(inflight, k)
    /\ oplog' = Append(oplog, [op |-> "release", key |-> k, res |-> TRUE])
    /\ UNCHANGED engineVars

TrackerNext == \E k \in Issues : OpTryAcquire(k) \/ OpRelease(k)

\* ------------------------------------------------------ hosting service
\* The issues of each repository, in the order the hosting service lists them.
IssuesOf(r) == IF r = "r1" THEN <<"r1#1">> ELSE <<"r2#1">>

\* Comment bodies, by what the code looks for in them.
ErrorComment(msg) == [kind |-> "error", arg |-> msg]
\* Mutant of NoChangeComment: the no-change comment carries the error sentinel.
NoChangeAsError == ErrorComment("no file changes")
NoChangeComment == [kind |-> "nochange", arg |-> ""]
PRLinkComment(url) == [kind |-> "prlink", arg |-> url]

\* strings.Contains(c.Body, "claude-bot encountered an error:")
HasSentinel(c) == c.kind = "error"
\* strings.Contains(c.Body, text), text an error message or a review-request URL
ContainsText(c, text) == c.arg = text

\* Comments that are not of the three kinds above: a comment written by a person,
\* and the reply triage posts.
UserComment(text) == [kind |-> "user", arg |-> text]
TriageReply(text) == [kind |-> "triage", arg |-> text]

\* The texts of the user comments of the model: one without any mention of the
\* bot, one that mentions its name, one that ends with the HTML marker.
PlainText == "please fix"
MentionText == "I love claude-bot!"
MarkedText == "Hey thanks! <!-- claude-bot -->"

\* buildTriageResponse: the output of the claude CLI, or the fallback text when the
\* CLI fails.
FallbackReply == "Hey @user, thanks for raising this! A maintainer will take a look soon."
GeneratedReply == "Thanks for the report, a maintainer will look at this soon."
TriageReplies == {FallbackReply, GeneratedReply}

\* The substring hasBotComment looks for, and the marker of bot comments.
BotName == "claude-bot"
botCommentMarker == "<!-- claude-bot -->"

\* strings.Contains(c.Body, s) for s the bot's name or the marker: the error comment
\* is "claude-bot encountered an error: ...", the no-change comment "claude-bot ran
\* but ...", the PR-link comment "PR ready for review: <url>".
BodyContains(c, s) ==
    IF s = BotName
    THEN c.kind \in {"error", "nochange"} \/ c.arg \in {MentionText, MarkedText}
    ELSE s = botCommentMarker /\ c.arg = MarkedText

\* The URL of the n-th review request opened on the branch of issue k.
PRUrl(k, n) == IF k = "r1#1" THEN "https://pr/r1/1" ELSE "https://pr/r2/1"
NoUrl == ""

\* The Issue value gh returns for k: key, labels and comments at the call.
Snapshot(k) == [key |-> k, labels |-> labels[k], comments |-> comments[k]]
NoIssue == [key |-> "", labels |-> {}, comments |-> <<>>]

\* Issue.hasLabel
hasLabel(issue, name) == name \in issue.labels

\* fetchIssues(repo, label): the open issues of repo carrying label ("" = no filter).
fetchIssues(r, label) ==
    LET all == [i \in 1..Len(IssuesOf(r)) |-> Snapshot(IssuesOf(r)[i])]
        keep(iss) == label = "" \/ hasLabel(iss, label)
    IN SelectSeq(all, keep)

\* Mutant of CountSentinels: every comment with the bot's name is counted.
RECURSIVE CountBotNamed(_)
CountBotNamed(cs) ==
    IF cs = <<>> THEN 0
    ELSE (IF BodyContains(Head(cs), BotName) THEN 1 ELSE 0) + CountBotNamed(Tail(cs))

\* countBotErrors
RECURSIVE CountSentinels(_)
CountSentinels(cs) ==
    IF cs = <<>> THEN 0
    ELSE (IF HasSentinel(Head(cs)) THEN 1 ELSE 0) + CountSentinels(Tail(cs))

countBotErrors(issue) == CountSentinels(issue.comments)

\* An external call: it succeeds only while the context is live; it fails when the
\* context is cancelled, or (a bounded number of times) for a transient reason.
\* Fails(n): the context is live and n of the calls of the step fail transiently.
Fails(n) == ~cancelled /\ budget >= n /\ budget' = budget - n
\* Aborted: the context is cancelled, every call of the step fails.
Aborted == cancelled /\ UNCHANGED budget
CallOk == Fails(0)
CallFail == Aborted \/ Fails(1)

\* addLabel / removeLabel (gh issue edit): the label set on success.
addLabel(k, name) == labels[k] \cup {name}
removeLabel(k, name) == labels[k] \ {name}

\* A label edit whose error the caller ignores.
LabelCall(k, new) ==
    \/ CallOk /\ labels' = [labels EXCEPT ![k] = new]
    \/ CallFail /\ UNCHANGED labels

\* commentOnIssue whose error the caller ignores.
CommentCall(k, body) ==
    \/ CallOk /\ comments' = [comments EXCEPT ![k] = Append(@, body)]
    \/ CallFail /\ UNCHANGED comments

\* Mutant of ProbeThenComment: the comment posted replaces the issue's comments.
ProbeThenReplace(k, found, body) ==
    \/ Fails(0) /\ found /\ UNCHANGED comments
    \/ Fails(0) /\ ~found /\ comments' = [comments EXCEPT ![k] = <<body>>]
    \/ CallFail /\ UNCHANGED comments

\* A probe of the issue's comments followed by commentOnIssue unless the probe found
\* the text: two calls; a failed probe counts as "not found", a failed comment is
\* ignored.
ProbeThenComment(k, found, body) ==
    \/ Fails(0) /\ found /\ UNCHANGED comments
    \/ Fails(0) /\ ~found /\ comments' = [comments EXCEPT ![k] = Append(@, body)]
    \/ Fails(1) /\ ~found /\ UNCHANGED comments
    \/ Fails(1) /\ comments' = [comments EXCEPT ![k] = Append(@, body)]
    \/ Fails(2) /\ UNCHANGED comments
    \/ Aborted /\ UNCHANGED comments

\* ----------------------------------------------------------------- Init
\* The states an issue can be in when the process boots.
Fresh == [labels |-> {IssueLabel}, comments |-> <<>>, prs |-> 0, pushed |-> 0]
AtCeiling ==
    [labels |-> {IssueLabel},
     comments |-> [i \in 1..MaxRetries |-> ErrorComment("prior")],
     prs |-> 0, pushed |-> 0]
StaleNoPR == [labels |-> {WIPLabel}, comments |-> <<>>, prs |-> 0, pushed |-> 0]
StaleWithPR == [labels |-> {WIPLabel}, comments |-> <<>>, prs |-> 1, pushed |-> 1]

Unlabelled == [labels |-> {}, comments |-> <<>>, prs |-> 0, pushed |-> 0]

\* The remote state of an issue: its labels, its comments, its review requests.
NoRemote == [labels |-> {"none"}, comments |-> <<>>, prs |-> 0]

\* The engine after construction: boot[k] is the state of issue k on the hosting
\* service, p the worker pool, b the number of transient failures to come.
EngineInit(boot, p, b) ==
    /\ inflight = {}
    /\ oplog = <<>>
    /\ labels = [k \in Issues |-> boot[k].labels]
    /\ comments = [k \in Issues |-> boot[k].comments]
    /\ prs = [k \in Issues |-> boot[k].prs]
    /\ pushed = [k \in Issues |-> boot[k].pushed]
    /\ hist = [bootWip |-> {k \in Issues : WIPLabel \in boot[k].labels},
               bootPR |-> {k \in Issues : boot[k].prs > 0},
               labelled |-> {},
               recovered |-> {},
               enq |-> [k \in Issues |-> 0],
               runs |-> [k \in Issues |-> 0],
               fin |-> [k \in Issues |-> 0],
               agent |-> [k \in Issues |-> 0],
               dedup |-> {},
               out |-> [k \in Issues |-> "none"],
               ok |-> [k \in Issues |-> 0],
               first |-> [k \in Issues |-> NoRemote],
               dropped |-> {},
               pollErr |-> {}]
    /\ repoLabels = [i \in 1..Len(Repos) |-> {}]
    /\ wt = [k \in Issues |-> "absent"]
    /\ jobs = <<>>
    /\ closed = FALSE
    /\ cancelled = FALSE
    /\ budget = b
    /\ pool = p
    /\ mainpc = "ensureLabels"
    /\ mrepo = 1
    /\ mlist = <<>>
    /\ started = FALSE
    /\ ppc = "notStarted"
    /\ prepo = 1
    /\ fetched = <<>>
    /\ pidx = 1
    /\ ticks = 0
    /\ wpc = [w \in Workers |-> "idle"]
    /\ wjob = [w \in Workers |-> NoIssue]
    /\ wret = [w \in Workers |-> ""]
    /\ wurl = [w \in Workers |-> NoUrl]

\* The whole pool on two issues; calls fail through cancellation only.
BootStates ==
    {[k \in Issues |-> Fresh],
     [k \in Issues |-> IF k = "r1#1" THEN StaleNoPR ELSE AtCeiling],
     [k \in Issues |-> IF k = "r1#1" THEN StaleWithPR ELSE AtCeiling]}

PoolInit == \E boot \in BootStates : EngineInit(boot, Workers, 0)

\* One worker on one issue; up to MaxFail calls fail transiently.
FailBootStates ==
    {[k \in Issues |-> IF k = "r1#1" THEN Fresh ELSE Unlabelled],
     [k \in Issues |-> IF k = "r1#1" THEN StaleNoPR ELSE AtCeiling],
     [k \in Issues |-> IF k = "r1#1" THEN StaleWithPR ELSE AtCeiling]}

FailInit == \E boot \in FailBootStates : EngineInit(boot, {"w1"}, MaxFail)

\* Spec starts from either family; FailSpec from the second only.
Init == PoolInit \/ FailInit

trackerVars == <<inflight, oplog>>
remoteVars == <<labels, comments, prs, pushed, repoLabels>>
mainVars == <<mainpc, mrepo, mlist, started, pool>>
pollVars == <<ppc, prepo, fetched, pidx, ticks>>
workerVars == <<wpc, wjob, wret, wurl>>

\* ------------------------------------------------- main and the reconciler
\* signal.NotifyContext: SIGINT / SIGTERM cancels ctx, at any time.
Cancel ==
    /\ ~cancelled
    /\ mainpc # "stopped"
    /\ cancelled' = TRUE
    /\ UNCHANGED <<trackerVars, remoteVars, wt, jobs, closed, budget, mainVars,
                   pollVars, workerVars, hist>>

\* ensureLabels, one repository: gh label create for the six labels, errors ignored.
MainEnsureLabels ==
    /\ mainpc = "ensureLabels"
    /\ \/ CallOk /\ repoLabels' = [repoLabels EXCEPT ![mrepo] = BotLabels]
       \/ CallFail /\ UNCHANGED repoLabels
    /\ IF mrepo < Len(Repos)
       THEN mrepo' = mrepo + 1 /\ UNCHANGED mainpc
       ELSE mrepo' = 1 /\ mainpc' = "recover"
    /\ hist' = [hist EXCEPT !.labelled = @ \cup {Repos[mrepo]}]
    /\ UNCHANGED <<pool, trackerVars, labels, comments, prs, pushed, wt, jobs, closed,
                   cancelled, mlist, started, pollVars, workerVars>>

\* recoverStaleIssues, top of the repository loop: fetchIssues(repo, WIPLabel).
MainRecoverFetch ==
    /\ mainpc = "recover"
    /\ mrepo <= Len(Repos)
    /\ \/ /\ CallOk
          /\ mlist' = fetchIssues(Repos[mrepo], WIPLabel)
          /\ mainpc' = "recIssue"
          /\ UNCHANGED <<mrepo, hist>>
       \/ /\ CallFail
          /\ mrepo' = mrepo + 1
          /\ hist' = [hist EXCEPT !.recovered = @ \cup {Repos[mrepo]}]
          /\ UNCHANGED <<mlist, mainpc>>
    /\ UNCHANGED <<pool, trackerVars, remoteVars, wt, jobs, closed, cancelled, started,
                   pollVars, workerVars>>

\* recoverStaleIssues, one issue: gh pr list --head branchName(issue).
\* A failed query leaves out unparsable, which the code treats as "no PR".
MainRecoverQuery ==
    /\ mainpc = "recIssue"
    /\ mlist # <<>>
    /\ LET k == Head(mlist).key
       IN \/ /\ CallOk
             /\ mainpc' = IF prs[k] > 0 THEN "recDoneAdd" ELSE "recResetRm"
          \/ /\ CallFail
             /\ mainpc' = "recResetRm"
    /\ UNCHANGED <<pool, trackerVars, remoteVars, wt, jobs, closed, cancelled, mrepo,
                   mlist, started, pollVars, workerVars, hist>>

\* recoverStaleIssues: the four label edits, errors ignored.
MainRecoverLabel ==
    /\ mainpc \in {"recDoneAdd", "recDoneRm", "recResetRm", "recResetAdd"}
    /\ LET k == Head(mlist).key
           new == CASE mainpc = "recDoneAdd" -> addLabel(k, DoneLabel)
                    [] mainpc = "recDoneRm" -> removeLabel(k, WIPLabel)
                    [] mainpc = "recResetRm" -> removeLabel(k, WIPLabel)
                    [] OTHER -> addLabel(k, IssueLabel)
       IN LabelCall(k, new)
    /\ IF mainpc \in {"recDoneAdd", "recResetRm"}
       THEN /\ mainpc' = IF mainpc = "recDoneAdd" THEN "recDoneRm" ELSE "recResetAdd"
            /\ UNCHANGED mlist
       ELSE /\ mainpc' = "recIssue"
            /\ mlist' = Tail(mlist)
    /\ UNCHANGED <<pool, trackerVars, comments, prs, pushed, repoLabels, wt, jobs, closed,
                   cancelled, mrepo, started, pollVars, workerVars, hist>>

\* recoverStaleIssues: the issue loop of a repository is over.
MainRecoverNextRepo ==
    /\ mainpc = "recIssue"
    /\ mlist = <<>>
    /\ mainpc' = "recover"
    /\ mrepo' = mrepo + 1
    /\ hist' = [hist EXCEPT !.recovered = @ \cup {Repos[mrepo]}]
    /\ UNCHANGED <<pool, trackerVars, remoteVars, wt, jobs, closed, cancelled, budget,
                   mlist, started, pollVars, workerVars>>

\* Mutant of StartupDone: the workers are started before stale-issue recovery.
StartupSkipsRecovery == mainpc = "recover"

\* main reaches "Start workers" when recoverStaleIssues has returned.
StartupDone == mainpc = "recover" /\ mrepo > Len(Repos)

\* main: jobs, tracker, the worker goroutines, then pollLoop.
MainStartWorkers ==
    /\ StartupDone
    /\ started' = TRUE
    /\ mainpc' = "pollLoop"
    /\ mrepo' = 1
    /\ ppc' = "first"
    /\ UNCHANGED <<pool, trackerVars, remoteVars, wt, jobs, closed, cancelled, budget,
                   mlist, prepo, fetched, pidx, ticks, workerVars, hist>>

\* Mutant of MainClose: close(jobs) does not wait for pollLoop to return.
MainClosesEarly ==
    /\ mainpc = "pollLoop"
    /\ closed' = TRUE
    /\ mainpc' = "wait"
    /\ UNCHANGED <<pool, trackerVars, remoteVars, wt, jobs, cancelled, budget, mrepo,
                   mlist, started, pollVars, workerVars, hist>>

\* main: pollLoop has returned; close(jobs).
MainClose ==
    /\ mainpc = "pollLoop"
    /\ ppc = "returned"
    /\ closed' = TRUE
    /\ mainpc' = "wait"
    /\ UNCHANGED <<pool, trackerVars, remoteVars, wt, jobs, cancelled, budget, mrepo,
                   mlist, started, pollVars, workerVars, hist>>

\* main: wg.Wait() returns when every worker has returned.
MainJoin ==
    /\ mainpc = "wait"
    /\ \A w \in pool : wpc[w] = "exited"
    /\ mainpc' = "stopped"
    /\ UNCHANGED <<pool, trackerVars, remoteVars, wt, jobs, closed, cancelled, budget,
                   mrepo, mlist, started, pollVars, workerVars, hist>>

Main ==
    \/ MainEnsureLabels
    \/ MainRecoverFetch
    \/ MainRecoverQuery
    \/ MainRecoverLabel
    \/ MainRecoverNextRepo
    \/ MainStartWorkers
    \/ MainClose
    \/ MainJoin

\* ------------------------------------------------------------- the poller
\* pollLoop: the immediate first poll, or a tick of the ticker.  The select may
\* take the ticker even when ctx.Done() is ready too.
PollTick ==
    /\ ppc \in {"first", "idle"}
    /\ ticks < MaxTicks
    /\ ppc' = "repo"
    /\ prepo' = 1
    /\ ticks' = ticks + 1
    /\ UNCHANGED <<trackerVars, remoteVars, wt, jobs, closed, cancelled, budget,
                   mainVars, fetched, pidx, workerVars, hist>>

\* pollLoop: case <-ctx.Done(): return
PollLoopReturn ==
    /\ ppc = "idle"
    /\ cancelled
    /\ ppc' = "returned"
    /\ UNCHANGED <<trackerVars, remoteVars, wt, jobs, closed, cancelled, budget,
                   mainVars, prepo, fetched, pidx, ticks, workerVars, hist>>

\* poll: the repository loop is over, or ctx.Err() != nil at its top.
PollReturn ==
    /\ ppc = "repo"
    /\ prepo > Len(Repos) \/ cancelled
    /\ ppc' = "idle"
    /\ prepo' = 1
    /\ UNCHANGED <<trackerVars, remoteVars, wt, jobs, closed, cancelled, budget,
                   mainVars, fetched, pidx, ticks, workerVars, hist>>

\* Mutant of PollFetch: an error of fetchIssues ends the tick.
PollFetchAborts ==
    /\ ppc = "repo"
    /\ prepo <= Len(Repos)
    /\ ~cancelled
    /\ \/ /\ CallOk
          /\ fetched' = fetchIssues(Repos[prepo], IssueLabel)
          /\ pidx' = 1
          /\ ppc' = "issue"
          /\ UNCHANGED <<prepo, hist>>
       \/ /\ CallFail
          /\ prepo' = 1
          /\ ppc' = "idle"
          /\ hist' = [hist EXCEPT !.pollErr = @ \cup {<<ticks, Repos[prepo]>>}]
          /\ UNCHANGED <<fetched, pidx>>
    /\ UNCHANGED <<trackerVars, remoteVars, wt, jobs, closed, cancelled, mainVars,
                   ticks, workerVars>>

\* poll: fetchIssues(ctx, repo, cfg.IssueLabel); an error skips the repository.
PollFetch ==
    /\ ppc = "repo"
    /\ prepo <= Len(Repos)
    /\ ~cancelled
    /\ \/ /\ CallOk
          /\ fetched' = fetchIssues(Repos[prepo], IssueLabel)
          /\ pidx' = 1
          /\ ppc' = "issue"
          /\ UNCHANGED <<prepo, hist>>
       \/ /\ CallFail
          /\ prepo' = prepo + 1
          /\ hist' = [hist EXCEPT !.pollErr = @ \cup {<<ticks, Repos[prepo]>>}]
          /\ UNCHANGED <<fetched, pidx, ppc>>
    /\ UNCHANGED <<trackerVars, remoteVars, wt, jobs, closed, cancelled, mainVars,
                   ticks, workerVars>>

\* poll: the issue loop of the repository is over.
PollNextRepo ==
    /\ ppc = "issue"
    /\ pidx > Len(fetched)
    /\ prepo' = prepo + 1
    /\ ppc' = "repo"
    /\ fetched' = <<>>
    /\ pidx' = 1
    /\ UNCHANGED <<trackerVars, remoteVars, wt, jobs, closed, cancelled, budget,
                   mainVars, ticks, workerVars, hist>>

\* Mutant of PollSkips: only in-progress is looked at.
PollSkipsWIPOnly(issue) == hasLabel(issue, WIPLabel)

\* poll: "Skip if already has WIP, done, or failed label"
PollSkips(issue) ==
    \/ hasLabel(issue, WIPLabel)
    \/ hasLabel(issue, DoneLabel)
    \/ hasLabel(issue, FailedLabel)

\* Mutant of AtRetryLimit: the comparison is strict.
AtRetryLimitStrict(issue) == countBotErrors(issue) > MaxRetries

\* poll: "Retry limit: if too many bot errors, mark as failed and skip"
AtRetryLimit(issue) == countBotErrors(issue) >= MaxRetries

\* poll, one issue of the list: the label filter, the retry limit, tryAcquire.
PollIssue ==
    /\ ppc = "issue"
    /\ pidx <= Len(fetched)
    /\ LET issue == fetched[pidx]
           r == tryAcquire(inflight, issue.key)
       IN IF PollSkips(issue)
          THEN pidx' = pidx + 1 /\ UNCHANGED <<ppc, inflight, hist>>
          ELSE IF AtRetryLimit(issue)
          THEN ppc' = "ceilAdd" /\ UNCHANGED <<pidx, inflight, hist>>
          ELSE /\ inflight' = r.inflight
               /\ IF r.ok
                  THEN ppc' = "send" /\ UNCHANGED <<pidx, hist>>
                  ELSE /\ pidx' = pidx + 1
                       /\ hist' = [hist EXCEPT !.dedup = @ \cup {issue.key}]
                       /\ UNCHANGED ppc
    /\ UNCHANGED <<oplog, remoteVars, wt, jobs, closed, cancelled, budget, mainVars,
                   prepo, fetched, ticks, workerVars>>

\* poll, retry limit reached: _ = addLabel(ctx, issue, cfg.FailedLabel)
PollCeilAdd ==
    /\ ppc = "ceilAdd"
    /\ LabelCall(fetched[pidx].key, addLabel(fetched[pidx].key, FailedLabel))
    /\ ppc' = "ceilRm"
    /\ UNCHANGED <<trackerVars, comments, prs, pushed, repoLabels, wt, jobs, closed,
                   cancelled, mainVars, prepo, fetched, pidx, ticks, workerVars, hist>>

\* poll, retry limit reached: _ = removeLabel(ctx, issue, cfg.IssueLabel); continue
PollCeilRm ==
    /\ ppc = "ceilRm"
    /\ LabelCall(fetched[pidx].key, removeLabel(fetched[pidx].key, IssueLabel))
    /\ ppc' = "issue"
    /\ pidx' = pidx + 1
    /\ UNCHANGED <<trackerVars, comments, prs, pushed, repoLabels, wt, jobs, closed,
                   cancelled, mainVars, prepo, fetched, ticks, workerVars, hist>>

\* poll: case jobs <- issue (the buffer has room).
PollSend ==
    /\ ppc = "send"
    /\ Len(jobs) < QueueCap
    /\ jobs' = Append(jobs, fetched[pidx])
    /\ hist' = [hist EXCEPT !.enq[fetched[pidx].key] = @ + 1]
    /\ ppc' = "issue"
    /\ pidx' = pidx + 1
    /\ UNCHANGED <<trackerVars, remoteVars, wt, closed, cancelled, budget, mainVars,
                   prepo, fetched, ticks, workerVars>>

\* Mutant of PollSendCancelled: the tick returns without releasing the key.
PollSendKeepsKey ==
    /\ ppc = "send"
    /\ cancelled
    /\ hist' = [hist EXCEPT !.dropped = @ \cup {fetched[pidx].key}]
    /\ ppc' = "idle"
    /\ prepo' = 1
    /\ fetched' = <<>>
    /\ pidx' = 1
    /\ UNCHANGED <<trackerVars, remoteVars, wt, jobs, closed, cancelled, budget,
                   mainVars, ticks, workerVars>>

\* poll: case <-ctx.Done(): t.release(issue.key()); return
PollSendCancelled ==
    /\ ppc = "send"
    /\ cancelled
    /\ inflight' = release(inflight, fetched[pidx].key)
    /\ hist' = [hist EXCEPT !.dropped = @ \cup {fetched[pidx].key}]
    /\ ppc' = "idle"
    /\ prepo' = 1
    /\ fetched' = <<>>
    /\ pidx' = 1
    /\ UNCHANGED <<oplog, remoteVars, wt, jobs, closed, cancelled, budget, mainVars,
                   ticks, workerVars>>

Poller ==
    \/ PollTick
    \/ PollLoopReturn
    \/ PollReturn
    \/ PollFetch
    \/ PollNextRepo
    \/ PollIssue
    \/ PollCeilAdd
    \/ PollCeilRm
    \/ PollSend
    \/ PollSendCancelled

\* ----------------------------------------------------------------- triage
\* cfg.Triage is set: poll calls triageNewIssues(repo) before it lists the ready
\* issues of the repository.

\* hasBotComment
hasBotComment(issue) ==
    \E i \in 1..Len(issue.comments) : BodyContains(issue.comments[i], BotName)

\* Mutant of hasBotLabel: the triaged label is missing from the list.
hasBotLabelFive(issue) == issue.labels \cap (BotLabels \ {TriageLabel}) # {}
\* triageNewIssues: "Skip if issue already has any bot label"
hasBotLabel(issue) == issue.labels \cap BotLabels # {}

\* triageNewIssues: fetchIssues(ctx, repo, ""); an error returns to poll.
TriageFetch ==
    /\ ppc = "repo"
    /\ prepo <= Len(Repos)
    /\ ~cancelled
    /\ \/ /\ CallOk
          /\ fetched' = fetchIssues(Repos[prepo], "")
          /\ ppc' = "triage"
       \/ /\ CallFail
          /\ ppc' = "listing"
          /\ UNCHANGED fetched
    /\ pidx' = 1
    /\ UNCHANGED <<trackerVars, remoteVars, wt, jobs, closed, cancelled, mainVars,
                   prepo, ticks, workerVars, hist>>

\* triageNewIssues, one issue of the list: an issue with a bot label is skipped; an
\* issue the bot has commented on gets the triaged label; otherwise the reply of
\* buildTriageResponse is posted, and an error of the comment skips the issue.
TriageIssue ==
    /\ ppc = "triage"
    /\ pidx <= Len(fetched)
    /\ LET issue == fetched[pidx]
       IN IF hasBotLabel(issue)
          THEN /\ pidx' = pidx + 1
               /\ UNCHANGED <<ppc, labels, comments, budget>>
          ELSE IF hasBotComment(issue)
          THEN /\ LabelCall(issue.key, addLabel(issue.key, TriageLabel))
               /\ pidx' = pidx + 1
               /\ UNCHANGED <<ppc, comments>>
          ELSE \/ /\ CallOk
                  /\ \E text \in TriageReplies :
                        comments' = [comments EXCEPT
                                        ![issue.key] = Append(@, TriageReply(text))]
                  /\ ppc' = "triLabel"
                  /\ UNCHANGED <<pidx, labels>>
               \/ /\ CallFail
                  /\ pidx' = pidx + 1
                  /\ UNCHANGED <<ppc, labels, comments>>
    /\ UNCHANGED <<trackerVars, prs, pushed, repoLabels, wt, jobs, closed, cancelled,
                   mainVars, prepo, fetched, ticks, workerVars, hist>>

\* triageNewIssues, after the reply: _ = addLabel(ctx, issue, cfg.TriageLabel)
TriageLabelAdd ==
    /\ ppc = "triLabel"
    /\ LabelCall(fetched[pidx].key, addLabel(fetched[pidx].key, TriageLabel))
    /\ ppc' = "triage"
    /\ pidx' = pidx + 1
    /\ UNCHANGED <<trackerVars, comments, prs, pushed, repoLabels, wt, jobs, closed,
                   cancelled, mainVars, prepo, fetched, ticks, workerVars, hist>>

\* triageNewIssues returns at the end of the list.
TriageReturn ==
    /\ ppc = "triage"
    /\ pidx > Len(fetched)
    /\ ppc' = "listing"
    /\ fetched' = <<>>
    /\ pidx' = 1
    /\ UNCHANGED <<trackerVars, remoteVars, wt, jobs, closed, cancelled, budget,
                   mainVars, prepo, ticks, workerVars, hist>>

\* poll, after triageNewIssues: fetchIssues(ctx, repo, cfg.IssueLabel); an error
\* skips the repository.
TriagedFetch ==
    /\ ppc = "listing"
    /\ \/ /\ CallOk
          /\ fetched' = fetchIssues(Repos[prepo], IssueLabel)
          /\ pidx' = 1
          /\ ppc' = "issue"
          /\ UNCHANGED <<prepo, hist>>
       \/ /\ CallFail
          /\ prepo' = prepo + 1
          /\ ppc' = "repo"
          /\ hist' = [hist EXCEPT !.pollErr = @ \cup {<<ticks, Repos[prepo]>>}]
          /\ UNCHANGED <<fetched, pidx>>
    /\ UNCHANGED <<trackerVars, remoteVars, wt, jobs, closed, cancelled, mainVars,
                   ticks, workerVars>>

\* The poller with cfg.Triage set.
TriagePoller ==
    \/ PollTick
    \/ PollLoopReturn
    \/ PollReturn
    \/ TriageFetch
    \/ TriageIssue
    \/ TriageLabelAdd
    \/ TriageReturn
    \/ TriagedFetch
    \/ PollNextRepo
    \/ PollIssue
    \/ PollSend
    \/ PollSendCancelled

\* ------------------------------------------------------------ the workers
Key(w) == wjob[w].key

Goto(w, pc) == wpc' = [wpc EXCEPT ![w] = pc]

\* Worker w is at position pc of processIssue and the context is live.  (Once the
\* context is cancelled the run ends by Interrupted.)
At(w, pc) == wpc[w] = pc /\ ~cancelled

\* Mutant of FailWith: the error returns without the deferred compensation.
ReturnsAtOnce(w, msg) ==
    /\ wret' = [wret EXCEPT ![w] = msg]
    /\ Goto(w, "returned")

\* A step of processIssue returns a wrapped error: the deferred function runs.
FailWith(w, msg) ==
    /\ wret' = [wret EXCEPT ![w] = msg]
    /\ Goto(w, "compComment")

\* cleanupWorktree: git worktree remove --force, then deleteLocalBranch; errors are
\* logged only.  With the context cancelled the git commands fail.
cleanupWorktree(k) ==
    IF wt[k] = "absent" \/ cancelled THEN wt ELSE [wt EXCEPT ![k] = "absent"]

\* The remote state of issue k.
Remote(k) == [labels |-> labels[k], comments |-> comments[k], prs |-> prs[k]]

\* processIssue returns; the worker is back at its call.
Return(w, outcome) ==
    /\ Goto(w, "returned")
    /\ hist' = IF outcome = "ok"
               THEN [hist EXCEPT !.out[Key(w)] = outcome,
                                 !.ok[Key(w)] = @ + 1,
                                 !.first[Key(w)] =
                                     IF @ = NoRemote THEN Remote(Key(w))' ELSE @]
               ELSE [hist EXCEPT !.out[Key(w)] = outcome]

\* The errors processIssue can return when the context is cancelled at the worker's
\* position: every remaining external call fails, so the run ends with the wrapped
\* error of the first step whose error is fatal ("" is nil: only ignored errors are
\* left), or, inside the deferred function, with retErr.
InterruptedErrors(w) ==
    CASE wpc[w] = "claimAdd" -> {"marking in-progress"}
      [] wpc[w] \in {"claimRm", "prep"} -> {"cloning repo", "fetching latest"}
      [] wpc[w] = "agent" -> {"running claude"}
      [] wpc[w] = "commit" -> {"committing"}
      [] wpc[w] = "push" -> {"pushing"}
      [] wpc[w] = "ensurePR" -> {"creating PR"}
      [] wpc[w] \in {"compComment", "compRm", "compAdd"} -> {wret[w]}
      [] OTHER -> {""}

\* processIssue under a cancelled context: exec.CommandContext fails every remaining
\* call (label edits, comments, git, the agent) without effect, the deferred function
\* included, and cleanupWorktree removes nothing; processIssue returns.
Interrupted(w) ==
    /\ cancelled
    /\ wpc[w] \notin {"idle", "exited", "returned"}
    /\ UNCHANGED <<trackerVars, remoteVars, wt, jobs, closed, cancelled, budget,
                   mainVars, pollVars, wjob, wurl>>
    /\ \E e \in InterruptedErrors(w) :
          /\ wret' = [wret EXCEPT ![w] = e]
          /\ Return(w, IF e = "" THEN "ok" ELSE "err")

\* Mutant of WorkerDequeue: the ctx.Err() test is dropped, processIssue is called.
WorkerDequeueRuns(w) ==
    /\ started
    /\ w \in pool
    /\ wpc[w] = "idle"
    /\ jobs # <<>>
    /\ jobs' = Tail(jobs)
    /\ wjob' = [wjob EXCEPT ![w] = Head(jobs)]
    /\ wret' = [wret EXCEPT ![w] = ""]
    /\ wurl' = [wurl EXCEPT ![w] = NoUrl]
    /\ Goto(w, IF hasLabel(Head(jobs), WIPLabel) THEN "prep" ELSE "claimAdd")
    /\ hist' = [hist EXCEPT !.runs[Head(jobs).key] = @ + 1]
    /\ UNCHANGED <<trackerVars, remoteVars, wt, closed, cancelled, budget, mainVars,
                   pollVars>>

\* Mutant of WorkerDequeue: after cancellation the worker returns without release.
WorkerDequeueDrops(w) ==
    /\ started
    /\ w \in pool
    /\ wpc[w] = "idle"
    /\ jobs # <<>>
    /\ jobs' = Tail(jobs)
    /\ IF cancelled
       THEN /\ Goto(w, "exited")
            /\ UNCHANGED <<wjob, wret, wurl, hist>>
       ELSE /\ wjob' = [wjob EXCEPT ![w] = Head(jobs)]
            /\ wret' = [wret EXCEPT ![w] = ""]
            /\ wurl' = [wurl EXCEPT ![w] = NoUrl]
            /\ Goto(w, IF hasLabel(Head(jobs), WIPLabel) THEN "prep" ELSE "claimAdd")
            /\ hist' = [hist EXCEPT !.runs[Head(jobs).key] = @ + 1]
    /\ UNCHANGED <<trackerVars, remoteVars, wt, closed, cancelled, budget, mainVars,
                   pollVars>>

\* Mutant of WorkerDequeue: the key is released when the job is received.
WorkerDequeueReleases(w) ==
    /\ started
    /\ w \in pool
    /\ wpc[w] = "idle"
    /\ jobs # <<>>
    /\ jobs' = Tail(jobs)
    /\ inflight' = release(inflight, Head(jobs).key)
    /\ IF cancelled
       THEN /\ Goto(w, "exited")
            /\ UNCHANGED <<wjob, wret, wurl, hist>>
       ELSE /\ wjob' = [wjob EXCEPT ![w] = Head(jobs)]
            /\ wret' = [wret EXCEPT ![w] = ""]
            /\ wurl' = [wurl EXCEPT ![w] = NoUrl]
            /\ Goto(w, IF hasLabel(Head(jobs), WIPLabel) THEN "prep" ELSE "claimAdd")
            /\ hist' = [hist EXCEPT !.runs[Head(jobs).key] = @ + 1]
    /\ UNCHANGED <<oplog, remoteVars, wt, closed, cancelled, budget, mainVars, pollVars>>

\* worker: for issue := range jobs, a job is received.
WorkerDequeue(w) ==
    /\ started
    /\ w \in pool
    /\ wpc[w] = "idle"
    /\ jobs # <<>>
    /\ jobs' = Tail(jobs)
    /\ LET issue == Head(jobs)
       IN IF cancelled
          THEN \* if ctx.Err() != nil { t.release(issue.key()); return }
               /\ inflight' = release(inflight, issue.key)
               /\ Goto(w, "exited")
               /\ UNCHANGED <<wjob, wret, wurl, hist>>
          ELSE \* processIssue is called; Step 1 is skipped if the issue has WIPLabel
               /\ wjob' = [wjob EXCEPT ![w] = issue]
               /\ wret' = [wret EXCEPT ![w] = ""]
               /\ wurl' = [wurl EXCEPT ![w] = NoUrl]
               /\ Goto(w, IF hasLabel(issue, WIPLabel) THEN "prep" ELSE "claimAdd")
               /\ hist' = [hist EXCEPT !.runs[issue.key] = @ + 1]
               /\ UNCHANGED inflight
    /\ UNCHANGED <<oplog, remoteVars, wt, closed, cancelled, budget, mainVars, pollVars>>

\* worker: the range loop ends when jobs is closed and drained.
WorkerExit(w) ==
    /\ started
    /\ w \in pool
    /\ wpc[w] = "idle"
    /\ jobs = <<>>
    /\ closed
    /\ Goto(w, "exited")
    /\ UNCHANGED <<trackerVars, remoteVars, wt, jobs, closed, cancelled, budget,
                   mainVars, pollVars, wjob, wret, wurl, hist>>

\* Mutant of WorkerRelease: the worker loops without calling release.
WorkerForgetsRelease(w) ==
    /\ wpc[w] = "returned"
    /\ Goto(w, "idle")
    /\ wjob' = [wjob EXCEPT ![w] = NoIssue]
    /\ wret' = [wret EXCEPT ![w] = ""]
    /\ wurl' = [wurl EXCEPT ![w] = NoUrl]
    /\ hist' = [hist EXCEPT !.fin[Key(w)] = @ + 1]
    /\ UNCHANGED <<trackerVars, remoteVars, wt, jobs, closed, cancelled, budget,
                   mainVars, pollVars>>

\* worker: t.release(issue.key()) after processIssue has returned.
WorkerRelease(w) ==
    /\ wpc[w] = "returned"
    /\ inflight' = release(inflight, Key(w))
    /\ Goto(w, "idle")
    /\ wjob' = [wjob EXCEPT ![w] = NoIssue]
    /\ wret' = [wret EXCEPT ![w] = ""]
    /\ wurl' = [wurl EXCEPT ![w] = NoUrl]
    /\ hist' = [hist EXCEPT !.fin[Key(w)] = @ + 1]
    /\ UNCHANGED <<oplog, remoteVars, wt, jobs, closed, cancelled, budget, mainVars,
                   pollVars>>

\* Step 1: addLabel(WIPLabel); an error aborts the run.
ClaimAdd(w) ==
    /\ At(w, "claimAdd")
    /\ \/ /\ CallOk
          /\ labels' = [labels EXCEPT ![Key(w)] = addLabel(Key(w), WIPLabel)]
          /\ Goto(w, "claimRm")
          /\ UNCHANGED wret
       \/ /\ CallFail
          /\ FailWith(w, "marking in-progress")
          /\ UNCHANGED labels
    /\ UNCHANGED <<trackerVars, comments, prs, pushed, repoLabels, wt, jobs, closed,
                   cancelled, mainVars, pollVars, wjob, wurl, hist>>

\* Step 1: removeLabel(IssueLabel); an error is a warning.
ClaimRm(w) ==
    /\ At(w, "claimRm")
    /\ LabelCall(Key(w), removeLabel(Key(w), IssueLabel))
    /\ Goto(w, "prep")
    /\ UNCHANGED <<trackerVars, comments, prs, pushed, repoLabels, wt, jobs, closed,
                   cancelled, mainVars, pollVars, wjob, wret, wurl, hist>>

\* The wrapped errors of steps 2 to 5 (before the agent runs).
PrepErrors == {"cloning repo", "fetching latest", "creating worktree", "checking changes"}

\* Mutant of Prep: the agent runs whatever the porcelain status.
PrepAlwaysAgent(w) ==
    /\ At(w, "prep")
    /\ \/ /\ CallOk
          /\ wt' = [wt EXCEPT ![Key(w)] = IF @ = "absent" THEN "clean" ELSE @]
          /\ Goto(w, "agent")
          /\ UNCHANGED wret
       \/ /\ CallFail
          /\ \E msg \in PrepErrors : FailWith(w, msg)
          /\ UNCHANGED wt
    /\ UNCHANGED <<trackerVars, remoteVars, jobs, closed, cancelled, mainVars,
                   pollVars, wjob, wurl, hist>>

\* Steps 2-5: ensureRepoCloned, git fetch, ensureWorktree, checkChanges.
\* ensureWorktree keeps an existing directory; hasChanges is the porcelain status.
Prep(w) ==
    /\ At(w, "prep")
    /\ \/ /\ CallOk
          /\ wt' = [wt EXCEPT ![Key(w)] = IF @ = "absent" THEN "clean" ELSE @]
          /\ Goto(w, IF wt[Key(w)] = "dirty" THEN "commit" ELSE "agent")
          /\ UNCHANGED wret
       \/ /\ CallFail
          /\ \E msg \in PrepErrors : FailWith(w, msg)
          /\ UNCHANGED wt
    /\ UNCHANGED <<trackerVars, remoteVars, jobs, closed, cancelled, mainVars,
                   pollVars, wjob, wurl, hist>>

\* Step 5: runClaude, then checkChanges again.  The agent leaves changes or none, or
\* it fails (non-zero exit, or the 10-minute timeout).
Agent(w) ==
    /\ At(w, "agent")
    /\ \/ /\ CallOk
          /\ \/ wt' = [wt EXCEPT ![Key(w)] = "dirty"] /\ Goto(w, "commit")
             \/ UNCHANGED wt /\ Goto(w, "ncComment")
          /\ UNCHANGED wret
       \/ /\ Fails(1)
          /\ FailWith(w, "running claude")
          /\ UNCHANGED wt
    /\ hist' = [hist EXCEPT !.agent[Key(w)] = @ + 1]
    /\ UNCHANGED <<trackerVars, remoteVars, jobs, closed, cancelled, mainVars,
                   pollVars, wjob, wurl>>

\* Step 6: the no-change comment.
NcComment(w) ==
    /\ At(w, "ncComment")
    /\ CommentCall(Key(w), NoChangeComment)
    /\ Goto(w, "ncRm")
    /\ UNCHANGED <<trackerVars, labels, prs, pushed, repoLabels, wt, jobs, closed,
                   cancelled, mainVars, pollVars, wjob, wret, wurl, hist>>

\* Step 6: _ = removeLabel(WIPLabel)
NcRm(w) ==
    /\ At(w, "ncRm")
    /\ LabelCall(Key(w), removeLabel(Key(w), WIPLabel))
    /\ Goto(w, "ncAdd")
    /\ UNCHANGED <<trackerVars, comments, prs, pushed, repoLabels, wt, jobs, closed,
                   cancelled, mainVars, pollVars, wjob, wret, wurl, hist>>

\* Step 6: _ = addLabel(NeedsInfoLabel); cleanupWorktree; return nil
NcAdd(w) ==
    /\ At(w, "ncAdd")
    /\ LabelCall(Key(w), addLabel(Key(w), NeedsInfoLabel))
    /\ wt' = cleanupWorktree(Key(w))
    /\ UNCHANGED <<trackerVars, comments, prs, pushed, repoLabels, jobs, closed,
                   cancelled, mainVars, pollVars, wjob, wret, wurl>>
    /\ Return(w, "ok")

\* Step 7: commitChanges (git add -A, git commit).
Commit(w) ==
    /\ At(w, "commit")
    /\ \/ /\ CallOk
          /\ wt' = [wt EXCEPT ![Key(w)] = "clean"]
          /\ Goto(w, "push")
          /\ UNCHANGED wret
       \/ /\ CallFail
          /\ FailWith(w, "committing")
          /\ UNCHANGED wt
    /\ UNCHANGED <<trackerVars, remoteVars, jobs, closed, cancelled, mainVars,
                   pollVars, wjob, wurl, hist>>

\* Mutant of Push: the error of the push is ignored.
PushErrorIgnored(w) ==
    /\ At(w, "push")
    /\ \/ CallOk /\ pushed' = [pushed EXCEPT ![Key(w)] = 1]
       \/ CallFail /\ UNCHANGED pushed
    /\ Goto(w, "ensurePR")
    /\ UNCHANGED <<trackerVars, labels, comments, prs, repoLabels, wt, jobs, closed,
                   cancelled, mainVars, pollVars, wjob, wret, wurl, hist>>

\* Step 8: git push -u origin branch.
Push(w) ==
    /\ At(w, "push")
    /\ \/ /\ CallOk
          /\ pushed' = [pushed EXCEPT ![Key(w)] = 1]
          /\ Goto(w, "ensurePR")
          /\ UNCHANGED wret
       \/ /\ CallFail
          /\ FailWith(w, "pushing")
          /\ UNCHANGED pushed
    /\ UNCHANGED <<trackerVars, labels, comments, prs, repoLabels, wt, jobs, closed,
                   cancelled, mainVars, pollVars, wjob, wurl, hist>>

\* Step 9, ensurePR: gh pr list --head branch, a listed review request is reused;
\* otherwise (none listed, or the listing failed) gh pr create.  The hosting service
\* refuses a second review request for the same head and base.
ensurePR(w) ==
    /\ At(w, "ensurePR")
    /\ \/ /\ Fails(0)
          /\ prs[Key(w)] > 0
          /\ wurl' = [wurl EXCEPT ![w] = PRUrl(Key(w), 1)]
          /\ Goto(w, "ensurePRComment")
          /\ UNCHANGED <<prs, wret>>
       \/ /\ Fails(0) \/ Fails(1)
          /\ prs[Key(w)] = 0
          /\ prs' = [prs EXCEPT ![Key(w)] = 1]
          /\ wurl' = [wurl EXCEPT ![w] = PRUrl(Key(w), 1)]
          /\ Goto(w, "ensurePRComment")
          /\ UNCHANGED wret
       \/ /\ \/ Fails(1)
             \/ Fails(2)
             \/ Aborted
          /\ FailWith(w, "creating PR")
          /\ UNCHANGED <<prs, wurl>>
    /\ UNCHANGED <<trackerVars, labels, comments, pushed, repoLabels, wt, jobs,
                   closed, cancelled, mainVars, pollVars, wjob, hist>>

\* Some comment of the sequence contains the text.
AnyContains(cs, text) == \E i \in 1..Len(cs) : ContainsText(cs[i], text)

\* Mutant of AfterPRComment: Step 11 is always skipped.
SkipsDone(w) == "cleanup"

\* The position after steps 9-10: Step 11 is skipped if the issue has DoneLabel.
AfterPRComment(w) == IF hasLabel(wjob[w], DoneLabel) THEN "cleanup" ELSE "doneAdd"

\* Step 10, ensurePRComment: fetchIssues(repo, "") and the scan for prURL, then
\* commentOnIssue("PR ready for review: <url>") unless found; an error is a warning.
ensurePRComment(w) ==
    /\ At(w, "ensurePRComment")
    /\ LET found == \E i \in 1..Len(fetchIssues(RepoOf(Key(w)), "")) :
                       /\ fetchIssues(RepoOf(Key(w)), "")[i].key = Key(w)
                       /\ AnyContains(fetchIssues(RepoOf(Key(w)), "")[i].comments,
                                      wurl[w])
       IN ProbeThenComment(Key(w), found, PRLinkComment(wurl[w]))
    /\ Goto(w, AfterPRComment(w))
    /\ UNCHANGED <<trackerVars, labels, prs, pushed, repoLabels, wt, jobs, closed,
                   cancelled, mainVars, pollVars, wjob, wret, wurl, hist>>

\* Step 11: _ = addLabel(DoneLabel)
DoneAdd(w) ==
    /\ At(w, "doneAdd")
    /\ LabelCall(Key(w), addLabel(Key(w), DoneLabel))
    /\ Goto(w, "doneRm")
    /\ UNCHANGED <<trackerVars, comments, prs, pushed, repoLabels, wt, jobs, closed,
                   cancelled, mainVars, pollVars, wjob, wret, wurl, hist>>

\* Step 11: _ = removeLabel(WIPLabel), then Step 12.
DoneRm(w) ==
    /\ At(w, "doneRm")
    /\ LabelCall(Key(w), removeLabel(Key(w), WIPLabel))
    /\ Goto(w, "cleanup")
    /\ UNCHANGED <<trackerVars, comments, prs, pushed, repoLabels, wt, jobs, closed,
                   cancelled, mainVars, pollVars, wjob, wret, wurl, hist>>

\* Step 12: cleanupWorktree; return nil
Cleanup(w) ==
    /\ At(w, "cleanup")
    /\ wt' = cleanupWorktree(Key(w))
    /\ UNCHANGED <<trackerVars, remoteVars, jobs, closed, cancelled, budget, mainVars,
                   pollVars, wjob, wret, wurl>>
    /\ Return(w, "ok")

\* Deferred function: the error comment, unless lastCommentContains finds the error
\* text in the last comment (gh issue view --json comments).
CompComment(w) ==
    /\ At(w, "compComment")
    /\ LET cs == comments[Key(w)]
           dup == cs # <<>> /\ ContainsText(cs[Len(cs)], wret[w])
       IN ProbeThenComment(Key(w), dup, ErrorComment(wret[w]))
    /\ Goto(w, "compRm")
    /\ UNCHANGED <<trackerVars, labels, prs, pushed, repoLabels, wt, jobs, closed,
                   cancelled, mainVars, pollVars, wjob, wret, wurl, hist>>

\* Deferred function: _ = removeLabel(WIPLabel)
CompRm(w) ==
    /\ At(w, "compRm")
    /\ LabelCall(Key(w), removeLabel(Key(w), WIPLabel))
    /\ Goto(w, "compAdd")
    /\ UNCHANGED <<trackerVars, comments, prs, pushed, repoLabels, wt, jobs, closed,
                   cancelled, mainVars, pollVars, wjob, wret, wurl, hist>>

\* Deferred function: _ = addLabel(IssueLabel); cleanupWorktree; the error returns.
CompAdd(w) ==
    /\ At(w, "compAdd")
    /\ LabelCall(Key(w), addLabel(Key(w), IssueLabel))
    /\ wt' = cleanupWorktree(Key(w))
    /\ UNCHANGED <<trackerVars, comments, prs, pushed, repoLabels, jobs, closed,
                   cancelled, mainVars, pollVars, wjob, wret, wurl>>
    /\ Return(w, "err")

Pipeline(w) ==
    \/ ClaimAdd(w)
    \/ ClaimRm(w)
    \/ Prep(w)
    \/ Agent(w)
    \/ NcComment(w)
    \/ NcRm(w)
    \/ NcAdd(w)
    \/ Commit(w)
    \/ Push(w)
    \/ ensurePR(w)
    \/ ensurePRComment(w)
    \/ DoneAdd(w)
    \/ DoneRm(w)
    \/ Cleanup(w)
    \/ CompComment(w)
    \/ CompRm(w)
    \/ CompAdd(w)

Worker(w) ==
    \/ WorkerDequeue(w)
    \/ WorkerExit(w)
    \/ WorkerRelease(w)
    \/ Pipeline(w)
    \/ Interrupted(w)

\* ------------------------------------------------------- specifications
Next == Cancel \/ Main \/ Poller \/ \E w \in Workers : Worker(w)

Spec == Init /\ [][Next]_vars

TrackerInit == EngineInit([k \in Issues |-> Fresh], Workers, 0)

TrackerSpec == TrackerInit /\ [][TrackerNext]_vars

FailSpec == FailInit /\ [][Next]_vars

\* An issue that a previous run has given up with the error msg: ready again, the
\* error comment being its last comment.
FailedBefore(msg) ==
    [labels |-> {IssueLabel}, comments |-> <<ErrorComment(msg)>>, prs |-> 0,
     pushed |-> 0]

\* The issues processIssue is called on below.
RunStates ==
    {Fresh} \cup {FailedBefore(msg) : msg \in {"running claude", "pushing"}}

\* The worktree directory of an issue as an earlier process may have left it: none,
\* one without changes, one with uncommitted changes (the process stopped, or its
\* cleanup failed, after the agent ran).
LeftWorktrees == {"absent", "clean", "dirty"}

\* processIssue alone: worker w1 has received r1#1 from the first poll (its tracker
\* key is held, the poller waits for its next tick); up to MaxFail + 1 of the calls
\* of the run fail transiently.
PipelineInit ==
    \E boot \in RunStates, b \in 0..(MaxFail + 1), left \in LeftWorktrees :
        /\ inflight = {"r1#1"}
        /\ oplog = <<>>
        /\ labels = [k \in Issues |-> IF k = "r1#1" THEN boot.labels ELSE {}]
        /\ comments = [k \in Issues |-> IF k = "r1#1" THEN boot.comments ELSE <<>>]
        /\ prs = [k \in Issues |-> 0]
        /\ pushed = [k \in Issues |-> 0]
        /\ hist = [bootWip |-> {},
                   bootPR |-> {},
                   labelled |-> {Repos[i] : i \in 1..Len(Repos)},
                   recovered |-> {Repos[i] : i \in 1..Len(Repos)},
                   enq |-> [k \in Issues |-> IF k = "r1#1" THEN 1 ELSE 0],
                   runs |-> [k \in Issues |-> IF k = "r1#1" THEN 1 ELSE 0],
                   fin |-> [k \in Issues |-> 0],
                   agent |-> [k \in Issues |-> 0],
                   dedup |-> {},
                   out |-> [k \in Issues |-> "none"],
                   ok |-> [k \in Issues |-> 0],
                   first |-> [k \in Issues |-> NoRemote],
                   dropped |-> {},
                   pollErr |-> {}]
        /\ repoLabels = [i \in 1..Len(Repos) |-> BotLabels]
        /\ wt = [k \in Issues |-> IF k = "r1#1" THEN left ELSE "absent"]
        /\ jobs = <<>>
        /\ closed = FALSE
        /\ cancelled = FALSE
        /\ budget = b
        /\ pool = {"w1"}
        /\ mainpc = "pollLoop"
        /\ mrepo = 1
        /\ mlist = <<>>
        /\ started = TRUE
        /\ ppc = "idle"
        /\ prepo = 1
        /\ fetched = <<>>
        /\ pidx = 1
        /\ ticks = 1
        /\ wpc = [w \in Workers |-> IF w = "w1" THEN "claimAdd" ELSE "idle"]
        /\ wjob = [w \in Workers |->
                      IF w = "w1"
                      THEN [key |-> "r1#1", labels |-> boot.labels,
                            comments |-> boot.comments]
                      ELSE NoIssue]
        /\ wret = [w \in Workers |-> ""]
        /\ wurl = [w \in Workers |-> NoUrl]

PipelineNext ==
    \/ Cancel
    \/ Pipeline("w1")
    \/ Interrupted("w1")
    \/ WorkerRelease("w1")

PipelineSpec == PipelineInit /\ [][PipelineNext]_vars

\* The states of an issue when triage first lists it: without labels (no comment,
\* a user comment without or with the bot's name, a comment with the marker, a bot
\* comment left by an earlier run), or with a reserved label (one of them ready
\* after two failed runs, with the comments of users in between).
TriageStates ==
    {Unlabelled,
     [Unlabelled EXCEPT !.comments = <<UserComment(PlainText)>>],
     [Unlabelled EXCEPT !.comments = <<UserComment(MentionText)>>],
     [Unlabelled EXCEPT !.comments = <<UserComment(MarkedText)>>],
     [Unlabelled EXCEPT !.comments = <<NoChangeComment>>],
     Fresh,
     [Fresh EXCEPT !.comments = <<UserComment(PlainText), ErrorComment("some error"),
                                  UserComment(MentionText),
                                  ErrorComment("another error")>>],
     [Unlabelled EXCEPT !.labels = {TriageLabel},
                        !.comments = <<TriageReply(FallbackReply)>>],
     [Unlabelled EXCEPT !.labels = {NeedsInfoLabel}, !.comments = <<NoChangeComment>>]}

\* The poller with triage enabled, after the startup: no worker takes a job; up to
\* MaxFail calls fail transiently.
TriageInit ==
    \E boot \in [Issues -> TriageStates] :
        /\ inflight = {}
        /\ oplog = <<>>
        /\ labels = [k \in Issues |-> boot[k].labels]
        /\ comments = [k \in Issues |-> boot[k].comments]
        /\ prs = [k \in Issues |-> 0]
        /\ pushed = [k \in Issues |-> 0]
        /\ hist = [bootWip |-> {},
                   bootPR |-> {},
                   labelled |-> {Repos[i] : i \in 1..Len(Repos)},
                   recovered |-> {Repos[i] : i \in 1..Len(Repos)},
                   enq |-> [k \in Issues |-> 0],
                   runs |-> [k \in Issues |-> 0],
                   fin |-> [k \in Issues |-> 0],
                   agent |-> [k \in Issues |-> 0],
                   dedup |-> {},
                   out |-> [k \in Issues |-> "none"],
                   ok |-> [k \in Issues |-> 0],
                   first |-> [k \in Issues |-> NoRemote],
                   dropped |-> {},
                   pollErr |-> {}]
        /\ repoLabels = [i \in 1..Len(Repos) |-> BotLabels]
        /\ wt = [k \in Issues |-> "absent"]
        /\ jobs = <<>>
        /\ closed = FALSE
        /\ cancelled = FALSE
        /\ budget = MaxFail
        /\ pool = {}
        /\ mainpc = "pollLoop"
        /\ mrepo = 1
        /\ mlist = <<>>
        /\ started = TRUE
        /\ ppc = "first"
        /\ prepo = 1
        /\ fetched = <<>>
        /\ pidx = 1
        /\ ticks = 0
        /\ wpc = [w \in Workers |-> "idle"]
        /\ wjob = [w \in Workers |-> NoIssue]
        /\ wret = [w \in Workers |-> ""]
        /\ wurl = [w \in Workers |-> NoUrl]

TriageNext == Cancel \/ TriagePoller

TriageSpec == TriageInit /\ [][TriageNext]_vars

\* ------------------------------------------------------------------ names
\* Strings are sequences of one-character strings.
LowerLetters ==
    <<"a", "b", "c", "d", "e", "f", "g", "h", "i", "j", "k", "l", "m",
      "n", "o", "p", "q", "r", "s", "t", "u", "v", "w", "x", "y", "z">>
UpperLetters ==
    <<"A", "B", "C", "D", "E", "F", "G", "H", "I", "J", "K", "L", "M",
      "N", "O", "P", "Q", "R", "S", "T", "U", "V", "W", "X", "Y", "Z">>
DigitChars == <<"0", "1", "2", "3", "4", "5", "6", "7", "8", "9">>

Range(s) == {s[i] : i \in 1..Len(s)}

\* strings.ToLower
ToLowerChar(c) ==
    IF c \in Range(UpperLetters)
    THEN LowerLetters[CHOOSE i \in 1..Len(UpperLetters) : UpperLetters[i] = c]
    ELSE c
ToLower(s) == [i \in 1..Len(s) |-> ToLowerChar(s[i])]

\* nonAlphanumeric = regexp.MustCompile(`[^a-z0-9]+`)
nonAlphanumeric(c) == c \notin Range(LowerLetters) \cup Range(DigitChars)

\* nonAlphanumeric.ReplaceAllString(s, "-"): every maximal run becomes one dash.
RECURSIVE ReplaceAllString(_, _)
ReplaceAllString(s, inRun) ==
    IF s = <<>> THEN <<>>
    ELSE IF nonAlphanumeric(Head(s))
         THEN (IF inRun THEN <<>> ELSE <<"-">>) \o ReplaceAllString(Tail(s), TRUE)
         ELSE <<Head(s)>> \o ReplaceAllString(Tail(s), FALSE)

\* strings.Trim(s, "-")
RECURSIVE TrimLeft(_)
TrimLeft(s) == IF s # <<>> /\ Head(s) = "-" THEN TrimLeft(Tail(s)) ELSE s
RECURSIVE TrimRight(_)
TrimRight(s) ==
    IF s # <<>> /\ s[Len(s)] = "-" THEN TrimRight(SubSeq(s, 1, Len(s) - 1)) ELSE s
Trim(s) == TrimRight(TrimLeft(s))

\* slugify: "if len(s) > 50 { s = s[:50] }"
SlugMax == 50

\* slugify
slugify(s) ==
    LET t == Trim(ReplaceAllString(ToLower(s), FALSE))
    IN IF Len(t) > SlugMax THEN SubSeq(t, 1, SlugMax) ELSE t

\* fmt.Sprintf("%d", n), n >= 0
RECURSIVE Itoa(_)
Itoa(n) ==
    IF n < 10 THEN <<DigitChars[n + 1]>>
    ELSE Itoa(n \div 10) \o <<DigitChars[(n % 10) + 1]>>

\* Mutant of branchName: an empty slug is not replaced.
branchNameNoFallback(issue) ==
    <<"i", "s", "s", "u", "e", "-">> \o Itoa(issue.number) \o <<"-">>
        \o slugify(issue.title)
\* branchName
branchName(issue) ==
    LET slug == IF slugify(issue.title) = <<>>
                THEN <<"f", "i", "x">>
                ELSE slugify(issue.title)
    IN <<"i", "s", "s", "u", "e", "-">> \o Itoa(issue.number) \o <<"-">> \o slug

\* cfg.WorktreeDir, and Issue.Repo of the configured repositories.
WorktreeDir == <<"t", "r", "e", "e", "s">>
RepoName(r) == IF r = "r1" THEN <<"o", "/", "r", "1">> ELSE <<"o", "/", "r", "2">>

\* filepath.Join of clean, non-empty elements
Join(a, b, c) == a \o <<"/">> \o b \o <<"/">> \o c

\* Mutant of wtDir: the repository is left out of the path.
wtDirFlat(issue) == WorktreeDir \o <<"/">> \o branchName(issue)
\* processIssue: wtDir := filepath.Join(cfg.WorktreeDir, issue.Repo, branch)
wtDir(issue) == Join(WorktreeDir, RepoName(issue.repo), branchName(issue))

\* The issues processIssue is called on in ContextSpec: a repository, a number, a
\* title.  The titles are a run of "x" followed by a tail: runs around SlugMax,
\* tails with upper case, digits, punctuation and dashes.
Rep(c, n) == [i \in 1..n |-> c]
RunLengths == {0, 1, SlugMax - 1, SlugMax, SlugMax + 1}
Tails ==
    {<<>>, <<" ">>, <<"!", "!">>, <<" ", "Y">>, <<"-", "2">>,
     <<"2", " ", "F", "i", "x">>}
Titles == {Rep("x", n) \o t : n \in RunLengths, t \in Tails}
Numbers == {1, 2, 12}
TitledIssues ==
    [repo : Range(Repos), number : Numbers, title : Titles,
     labels : {{IssueLabel}}, comments : {<<>>}]

\* Issue.key: fmt.Sprintf("%s#%d", i.Repo, i.Number)
IssueKey(issue) == RepoName(issue.repo) \o <<"#">> \o Itoa(issue.number)

\* processIssue, lines 652-655: the work context derived from the issue.
WorkContext(issue) ==
    [key |-> IssueKey(issue), repo |-> issue.repo, number |-> issue.number,
     title |-> issue.title, labels |-> issue.labels, comments |-> issue.comments,
     slug |-> slugify(issue.title), branch |-> branchName(issue),
     wtDir |-> wtDir(issue)]

\* An issue is acquired, handed to worker w, and processIssue derives its context.
ContextDerive(w) ==
    /\ wpc[w] = "idle"
    /\ \E issue \in TitledIssues :
          /\ tryAcquire(inflight, IssueKey(issue)).ok
          /\ inflight' = tryAcquire(inflight, IssueKey(issue)).inflight
          /\ wjob' = [wjob EXCEPT ![w] = WorkContext(issue)]
    /\ wpc' = [wpc EXCEPT ![w] = "context"]
    /\ UNCHANGED <<oplog, remoteVars, wt, jobs, closed, cancelled, budget, mainVars,
                   pollVars, wret, wurl, hist>>

\* processIssue returns and the worker releases the key.
ContextRelease(w) ==
    /\ wpc[w] = "context"
    /\ inflight' = release(inflight, wjob[w].key)
    /\ wjob' = [wjob EXCEPT ![w] = NoIssue]
    /\ wpc' = [wpc EXCEPT ![w] = "idle"]
    /\ UNCHANGED <<oplog, remoteVars, wt, jobs, closed, cancelled, budget, mainVars,
                   pollVars, wret, wurl, hist>>

\* The workers, each deriving the work context of the issue it is handed.
ContextInit == EngineInit([k \in Issues |-> Fresh], Workers, 0)

ContextNext == \E w \in Workers : ContextDerive(w) \/ ContextRelease(w)

ContextSpec == ContextInit /\ [][ContextNext]_vars

\* pollLoop: a tick (as PollTick), for as long as r1#1 has not been run more than
\* MaxRetries times; ticks counts up to MaxTicks.
RetryTick ==
    /\ ppc \in {"first", "idle"}
    /\ hist.runs["r1#1"] <= MaxRetries
    /\ ppc' = "repo"
    /\ prepo' = 1
    /\ ticks' = IF ticks < MaxTicks THEN ticks + 1 ELSE ticks
    /\ UNCHANGED <<trackerVars, remoteVars, wt, jobs, closed, cancelled, budget,
                   mainVars, fetched, pidx, workerVars, hist>>

\* runClaude returns an error: "claude exited with error: ..." or "claude timed out
\* after 10 minutes", wrapped as "running claude: ...".
AgentErrors == {"running claude", "running claude: claude timed out"}

\* processIssue, Step 5: the agent fails, as often as it is run.
AgentFails(w) ==
    /\ At(w, "agent")
    /\ \E msg \in AgentErrors : FailWith(w, msg)
    /\ hist' = [hist EXCEPT !.agent[Key(w)] = @ + 1]
    /\ UNCHANGED <<trackerVars, remoteVars, wt, jobs, closed, cancelled, budget,
                   mainVars, pollVars, wjob, wurl>>

\* The engine after the startup with one worker, r1#1 ready and r2#1 without labels,
\* the context never cancelled: no call fails but the agent.
RetryInit ==
    /\ inflight = {}
    /\ oplog = <<>>
    /\ labels = [k \in Issues |-> IF k = "r1#1" THEN {IssueLabel} ELSE {}]
    /\ comments = [k \in Issues |-> <<>>]
    /\ prs = [k \in Issues |-> 0]
    /\ pushed = [k \in Issues |-> 0]
    /\ hist = [bootWip |-> {},
               bootPR |-> {},
               labelled |-> {Repos[i] : i \in 1..Len(Repos)},
               recovered |-> {Repos[i] : i \in 1..Len(Repos)},
               enq |-> [k \in Issues |-> 0],
               runs |-> [k \in Issues |-> 0],
               fin |-> [k \in Issues |-> 0],
               agent |-> [k \in Issues |-> 0],
               dedup |-> {},
               out |-> [k \in Issues |-> "none"],
               ok |-> [k \in Issues |-> 0],
               first |-> [k \in Issues |-> NoRemote],
               dropped |-> {},
               pollErr |-> {}]
    /\ repoLabels = [i \in 1..Len(Repos) |-> BotLabels]
    /\ wt = [k \in Issues |-> "absent"]
    /\ jobs = <<>>
    /\ closed = FALSE
    /\ cancelled = FALSE
    /\ budget = 0
    /\ pool = {"w1"}
    /\ mainpc = "pollLoop"
    /\ mrepo = 1
    /\ mlist = <<>>
    /\ started = TRUE
    /\ ppc = "first"
    /\ prepo = 1
    /\ fetched = <<>>
    /\ pidx = 1
    /\ ticks = 0
    /\ wpc = [w \in Workers |-> "idle"]
    /\ wjob = [w \in Workers |-> NoIssue]
    /\ wret = [w \in Workers |-> ""]
    /\ wurl = [w \in Workers |-> NoUrl]

RetryNext ==
    \/ RetryTick
    \/ PollReturn
    \/ PollFetch
    \/ PollNextRepo
    \/ PollIssue
    \/ PollCeilAdd
    \/ PollCeilRm
    \/ PollSend
    \/ WorkerDequeue("w1")
    \/ WorkerRelease("w1")
    \/ Pipeline("w1")
    \/ AgentFails("w1")

RetrySpec == RetryInit /\ [][RetryNext]_vars

\* One worker and two ready issues (so that a job can wait behind another), besides
\* the boot states of FailSpec.
DrainInit == FailInit \/ EngineInit([k \in Issues |-> Fresh], {"w1"}, 0)

DrainSpec == DrainInit /\ [][Next]_vars

\* The Go scheduler runs every goroutine that can take a step: main, the poller
\* (pollLoop runs on main's goroutine, between the start of the workers and
\* close(jobs)) and each worker.
Fairness ==
    /\ WF_vars(Main)
    /\ WF_vars(Poller)
    /\ \A w \in Workers : WF_vars(Worker(w))

\* One worker; r1#1 is at the retry ceiling, r2#1 was left in-progress by a crash;
\* up to MaxFail calls fail transiently.
LiveInit ==
    EngineInit([k \in Issues |-> IF k = "r1#1" THEN AtCeiling ELSE StaleNoPR],
               {"w1"}, MaxFail)

LiveSpec == LiveInit /\ [][Next]_vars /\ Fairness

\* ================================================================ properties
\* ---------------------------------------------------------------------- C1
\* Key k is held after the first i operations of the log: some tryAcquire(k) among
\* them returned true and no release(k) follows it.
HeldAfter(i, k) ==
    \E j \in 1..i :
        /\ oplog[j] = [op |-> "tryAcquire", key |-> k, res |-> TRUE]
        /\ \A m \in (j + 1)..i : ~(oplog[m].op = "release" /\ oplog[m].key = k)

\* C1: in every sequence of tracker operations, a tryAcquire(k) returns false
\* exactly when an earlier tryAcquire(k) returned true and release(k) has not been
\* called since; so after a true, every later tryAcquire(k) is false until
\* release(k), and the first tryAcquire(k) after release(k) is true.
C1_TrackerExclusive ==
    \A i \in 1..Len(oplog) :
        oplog[i].op = "tryAcquire" => (oplog[i].res = ~HeldAfter(i - 1, oplog[i].key))

\* C1 witness: acquire (true), acquire (false), release, acquire (true) on one key.
C1_Witness ==
    \E k \in Issues :
        /\ Len(oplog) >= 4
        /\ oplog[1] = [op |-> "tryAcquire", key |-> k, res |-> TRUE]
        /\ oplog[2] = [op |-> "tryAcquire", key |-> k, res |-> FALSE]
        /\ oplog[3] = [op |-> "release", key |-> k, res |-> TRUE]
        /\ oplog[4] = [op |-> "tryAcquire", key |-> k, res |-> TRUE]

\* ------------------------------------------------------- job bookkeeping
\* Worker w is executing processIssue: it has dequeued a job and not yet returned.
Executing(w) == wpc[w] \notin {"idle", "exited", "returned"}

\* Worker w holds a job: processIssue is running or has returned, release not yet called.
Holding(w) == wpc[w] \notin {"idle", "exited"}

\* A job for key k waits in the jobs channel.
Queued(k) == \E i \in 1..Len(jobs) : jobs[i].key = k

\* The poller holds key k: tryAcquire succeeded, the send is still to come.
Sending(k) == ppc = "send" /\ fetched[pidx].key = k

\* The reconciler has run to completion: ensureLabels and recoverStaleIssues have
\* gone through every configured repository.
ReconcilerCompleted ==
    /\ hist.labelled = {Repos[i] : i \in 1..Len(Repos)}
    /\ hist.recovered = {Repos[i] : i \in 1..Len(Repos)}

\* The positions of processIssue after the agent has run.
PostAgent ==
    {"ncComment", "ncRm", "ncAdd", "commit", "push", "ensurePR", "ensurePRComment",
     "doneAdd", "doneRm", "cleanup"}

\* ---------------------------------------------------------------------- C2
\* C2: at no time are two distinct workers executing processIssue for the same key.
C2_OneWorkerPerKey ==
    \A w1 \in Workers : \A w2 \in Workers :
        (w1 # w2 /\ Executing(w1) /\ Executing(w2)) => Key(w1) # Key(w2)

\* C2 witness: both workers execute pipelines at once, during the second tick, while
\* the poller has met a key that was held.
C2_Witness ==
    /\ ticks = 2
    /\ hist.dedup # {}
    /\ \E w1 \in Workers : \E w2 \in Workers :
          w1 # w2 /\ Executing(w1) /\ Executing(w2)

C4_InflightIffExecuting ==
    \A k \in Issues : (k \in inflight) <=> (\E w \in Workers : Executing(w) /\ Key(w) = k)

\* C4 amended: a key is in the inflight set iff a job for it exists: the poller holds
\* it between tryAcquire and the channel send, or it waits in the jobs channel, or a
\* worker has dequeued it and not yet called release.
C4_InflightIffJob ==
    \A k \in Issues :
        (k \in inflight) <=>
            \/ Sending(k)
            \/ Queued(k)
            \/ \E w \in Workers : Holding(w) /\ Key(w) = k

\* C4 witness: a key is held while its job waits in the channel and no worker runs it,
\* and another key is held by the worker executing it.
C4_Witness ==
    \E k1 \in Issues : \E k2 \in Issues :
        /\ k1 \in inflight /\ Queued(k1)
        /\ ~\E w \in Workers : Holding(w) /\ Key(w) = k1
        /\ k2 \in inflight /\ \E w \in Workers : Executing(w) /\ Key(w) = k2

\* ---------------------------------------------------------------------- C5
\* C5: when processIssue has returned, with nil or with an error, the worker's next
\* step removes the issue's key from the inflight set and takes no job; only then
\* is the worker back at the receive.
C5_ReleaseOnReturn ==
    [][\A w \in Workers :
          (wpc[w] = "returned" /\ wpc'[w] # "returned") =>
              /\ Key(w) \in inflight
              /\ Key(w) \notin inflight'
              /\ wpc'[w] = "idle"
              /\ jobs' = jobs]_vars

\* C5 witness: one pipeline has returned nil, another an error, both were released.
C5_Witness ==
    \E k1 \in Issues : \E k2 \in Issues :
        /\ hist.out[k1] = "ok" /\ hist.fin[k1] >= 1 /\ k1 \notin inflight
        /\ hist.out[k2] = "err" /\ hist.fin[k2] >= 1 /\ k2 \notin inflight

\* ---------------------------------------------------------------------- C6
\* The labels that end a pipeline: done, needs-info, failed, ready.
TerminalLabels == {DoneLabel, NeedsInfoLabel, FailedLabel, IssueLabel}

\* C6: when processIssue has returned (the context still live), exactly one of the
\* labels done, needs-info, failed, ready is present on the issue.
C6_ExactlyOneTerminal ==
    \A w \in Workers :
        (wpc[w] = "returned" /\ ~cancelled) =>
            Cardinality(labels[Key(w)] \cap TerminalLabels) = 1

\* ---------------------------------------------------------------------- C7
\* The poller takes a step.
PollerMoves == <<ppc, pidx>>' # <<ppc, pidx>>

\* The poller is at an issue of the ready listing whose error-sentinel count has
\* reached cfg.MaxRetries.
AtCeilingIssue ==
    /\ ppc = "issue"
    /\ pidx <= Len(fetched)
    /\ countBotErrors(fetched[pidx]) >= MaxRetries

\* The external call of the step succeeded.
CalledOk == ~cancelled /\ budget' = budget

\* The step leaves the labels alone or applies the given edit of issue k.
LabelsKeptOr(k, new) == labels' = labels \/ labels' = [labels EXCEPT ![k] = new]

\* C7 as stated: for every listed issue at the retry ceiling the poller goes on to
\* add failed and remove ready, and neither acquires the key nor enqueues the issue.
C7_CeilingAlways ==
    [][(AtCeilingIssue /\ PollerMoves) =>
          (ppc' = "ceilAdd" /\ UNCHANGED <<inflight, jobs>>)]_vars

\* C7 amended: for every listed issue at the retry ceiling that carries none of
\* in-progress, done, failed, the poller issues the add-failed edit and then the
\* remove-ready edit (a failing edit is ignored, a successful one takes effect),
\* acquires no key and enqueues nothing; no job ever carries an issue at the ceiling.
C7_CeilingMarksFailed ==
    /\ [](/\ \A i \in 1..Len(jobs) : countBotErrors(jobs[i]) < MaxRetries
          /\ \A w \in Workers : Holding(w) => countBotErrors(wjob[w]) < MaxRetries
          /\ ppc = "send" => countBotErrors(fetched[pidx]) < MaxRetries)
    /\ [][/\ (AtCeilingIssue /\ ~PollSkips(fetched[pidx]) /\ PollerMoves) =>
                (ppc' = "ceilAdd" /\ UNCHANGED <<inflight, jobs, pidx, labels>>)
          /\ (ppc = "ceilAdd" /\ PollerMoves) =>
                /\ ppc' = "ceilRm"
                /\ LabelsKeptOr(fetched[pidx].key,
                                labels[fetched[pidx].key] \cup {FailedLabel})
                /\ CalledOk => FailedLabel \in labels'[fetched[pidx].key]
                /\ UNCHANGED <<inflight, jobs, pidx>>
          /\ (ppc = "ceilRm" /\ PollerMoves) =>
                /\ ppc' = "issue"
                /\ pidx' = pidx + 1
                /\ LabelsKeptOr(fetched[pidx].key,
                                labels[fetched[pidx].key] \ {IssueLabel})
                /\ CalledOk => IssueLabel \notin labels'[fetched[pidx].key]
                /\ UNCHANGED <<inflight, jobs>>]_vars

\* C7 witness: an issue at the ceiling was listed; it now carries failed and not
\* ready, its key is free and it was never enqueued.
C7_Witness ==
    \E k \in Issues :
        /\ ticks >= 1
        /\ CountSentinels(comments[k]) >= MaxRetries
        /\ labels[k] = {FailedLabel}
        /\ k \notin inflight
        /\ hist.enq[k] = 0

\* ---------------------------------------------------------------------- C8
\* C8: when the reconciler has completed (before the workers start, the context
\* still live), every issue that carried in-progress at boot carries it no longer:
\* it carries done if a review request exists on its branch, ready if none does.
C8_StaleRecovered ==
    (ReconcilerCompleted /\ ~started /\ ~cancelled) =>
        \A k \in hist.bootWip :
            /\ WIPLabel \notin labels[k]
            /\ IF k \in hist.bootPR
               THEN DoneLabel \in labels[k]
               ELSE IssueLabel \in labels[k]

\* ---------------------------------------------------------------------- C9
\* C9: the worker goroutines exist, a worker has received a job, the poller runs
\* or a poll tick has begun only if the startup reconciler has completed.
C9_ReconcilerFirst ==
    (\/ started
     \/ ppc # "notStarted"
     \/ ticks > 0
     \/ \E w \in Workers : wpc[w] # "idle"
     \/ \E k \in Issues : hist.enq[k] > 0)
        => ReconcilerCompleted

\* C9 witness: an issue found in-progress at boot was reset by the reconciler, and a
\* worker has received its job in a later poll tick.
C9_Witness ==
    \E k \in hist.bootWip : hist.runs[k] > 0 /\ ticks > 0

\* --------------------------------------------------------------------- C10
\* No external call has failed so far.
NoCallFailed == ~cancelled /\ (pool = Workers \/ budget = MaxFail)

\* C10: when a pipeline has opened the review request and marked the issue done, and
\* a later pipeline for the same issue has returned nil (no call having failed), the
\* remote state of the issue (labels, comments, review requests) is what the first
\* pipeline left: same done label, same review request, no further comment.
C10_SecondRunNoEffect ==
    \A w \in Workers :
        (/\ wpc[w] = "returned"
         /\ NoCallFailed
         /\ hist.out[Key(w)] = "ok"
         /\ hist.ok[Key(w)] >= 2
         /\ DoneLabel \in hist.first[Key(w)].labels) =>
            Remote(Key(w)) = hist.first[Key(w)]

\* --------------------------------------------------------------------- C11
\* Worker w completes ensurePR in this step, the context not being cancelled.
LeavesEnsurePR(w) == wpc[w] = "ensurePR" /\ ~cancelled /\ wpc'[w] # "ensurePR"

\* C11: no branch ever carries two review requests, and a pipeline that reaches
\* ensurePR while a review request exists for its branch reuses that URL and goes on
\* to the comment step without calling create ("creating PR" is the error of the
\* create call alone).
C11_NoCreateWhenExists ==
    /\ [](\A k \in Issues : prs[k] <= 1)
    /\ [][\A w \in Workers :
              (LeavesEnsurePR(w) /\ prs[Key(w)] > 0) =>
                  /\ wpc'[w] = "ensurePRComment"
                  /\ wurl'[w] = PRUrl(Key(w), 1)
                  /\ wret'[w] = ""
                  /\ prs' = prs]_vars

\* --------------------------------------------------------------------- C12
\* The number of comments of the sequence that contain the text.
CountContaining(cs, text) == Cardinality({i \in 1..Len(cs) : ContainsText(cs[i], text)})

\* C12: whatever number of pipelines has run on an issue, at most one of its comments
\* contains the URL of its review request.
C12_OneLinkComment ==
    \A k \in Issues : CountContaining(comments[k], PRUrl(k, 1)) <= 1

\* --------------------------------------------------------------------- C13
\* The positions of Step 6 (the agent left no changes).
NoChangeSteps == {"ncComment", "ncRm", "ncAdd"}

\* Worker w takes a step of processIssue from position pc with the context live.
StepsFrom(w, pc) == wpc[w] = pc /\ ~cancelled /\ wpc'[w] # pc

FirstRunAllOk(w) ==
    /\ wpc[w] \notin {"idle", "exited"}
    /\ wjob[w].labels = {IssueLabel}
    /\ hist.runs[Key(w)] = 1
    /\ NoCallFailed

\* The lifecycle labels of the issue at each position of a run that succeeds with
\* changes: ready, then in-progress, then done.
LifecycleAt(pc) ==
    CASE pc = "claimAdd" -> {IssueLabel}
      [] pc = "claimRm" -> {IssueLabel, WIPLabel}
      [] pc \in {"prep", "agent", "commit", "push", "ensurePR", "ensurePRComment",
                 "doneAdd"} -> {WIPLabel}
      [] pc = "doneRm" -> {WIPLabel, DoneLabel}
      [] OTHER -> {DoneLabel}

\* C14: in the first run of an issue carrying only ready, every call succeeding, the
\* labels go ready, in-progress, done in step with the pipeline; once the review
\* request is opened (the agent produced changes) the branch has exactly one review
\* request, after the comment step exactly one comment contains its URL, and at the
\* return the labels are {done} and the worktree is removed.
C14_HappyPath ==
    \A w \in Workers :
        LET k == Key(w)
        IN FirstRunAllOk(w) =>
               /\ wpc[w] \notin NoChangeSteps /\ (wpc[w] = "returned" => wurl[w] # NoUrl)
                      => labels[k] = LifecycleAt(wpc[w])
               /\ wurl[w] # NoUrl =>
                      /\ prs[k] = 1
                      /\ wpc[w] # "ensurePRComment" =>
                             CountContaining(comments[k], wurl[w]) = 1
                      /\ wpc[w] = "returned" => wt[k] = "absent" /\ hist.out[k] = "ok"

\* C14 witness: such a run has returned: done is the only label, one review request,
\* one comment with its URL, no worktree.
C14_Witness ==
    \E w \in Workers :
        /\ FirstRunAllOk(w)
        /\ wpc[w] = "returned"
        /\ wurl[w] = PRUrl(Key(w), 1)
        /\ labels[Key(w)] = {DoneLabel}
        /\ prs[Key(w)] = 1
        /\ comments[Key(w)] = <<PRLinkComment(wurl[w])>>
        /\ wt[Key(w)] = "absent"

\* --------------------------------------------------------------------- C15
\* The positions of steps 2 to 9, whose errors processIssue returns.
FatalSteps == {"prep", "agent", "commit", "push", "ensurePR"}

\* The positions of the deferred compensation.
CompSteps == {"compComment", "compRm", "compAdd"}

\* C15: when a step from the clone onward fails, the deferred function runs before
\* processIssue returns: after the error comment it removes in-progress, then adds
\* ready (each edit taking effect when its call succeeds), then removes the worktree;
\* a failed compensation call stops none of the later ones, the error returned is the
\* error of the failed step, and the worker releases the key and is ready for its
\* next job.
C15_Compensation ==
    [][\A w \in Workers :
          LET k == Key(w)
          IN /\ (wpc[w] \in FatalSteps /\ ~cancelled /\ wret'[w] # "") =>
                    wpc'[w] = "compComment"
             /\ StepsFrom(w, "compComment") => wpc'[w] = "compRm"
             /\ StepsFrom(w, "compRm") =>
                    /\ wpc'[w] = "compAdd"
                    /\ CalledOk => labels'[k] = labels[k] \ {WIPLabel}
             /\ StepsFrom(w, "compAdd") =>
                    /\ wpc'[w] = "returned"
                    /\ wt'[k] = "absent"
                    /\ CalledOk => labels'[k] = labels[k] \cup {IssueLabel}
             /\ (wpc[w] \in CompSteps /\ wpc'[w] # wpc[w]) =>
                    /\ wret'[w] = wret[w]
                    /\ wret[w] # ""
                    /\ wpc'[w] = "returned" => hist'.out[k] = "err"
             /\ (wpc[w] = "returned" /\ wpc'[w] # "returned") =>
                    /\ wpc'[w] = "idle"
                    /\ k \notin inflight']_vars

\* C15 witness: the agent failed, the error comment was posted, the removal of
\* in-progress failed, ready was still added, the worktree is gone and the agent's
\* error is returned.
C15_Witness ==
    \E w \in Workers :
        /\ wpc[w] = "returned"
        /\ ~cancelled
        /\ wret[w] = "running claude"
        /\ hist.out[Key(w)] = "err"
        /\ labels[Key(w)] = {WIPLabel, IssueLabel}
        /\ comments[Key(w)] = <<ErrorComment("running claude")>>
        /\ wt[Key(w)] = "absent"

\* --------------------------------------------------------------------- C16
\* C16: when addLabel(in-progress) fails in Step 1, processIssue returns at once:
\* the deferred compensation is not entered, and while that error is being returned
\* no comment is posted on the issue, no label of it changes and its worktree is
\* left alone.
C16_ClaimFailureAborts ==
    [][\A w \in Workers :
          LET k == Key(w)
          IN /\ (wpc[w] = "claimAdd" /\ wret'[w] = "marking in-progress") =>
                    wpc'[w] = "returned"
             /\ (wret[w] = "marking in-progress" /\ wpc[w] # "returned") =>
                    /\ wpc'[w] \notin CompSteps
                    /\ comments'[k] = comments[k]
                    /\ labels'[k] = labels[k]
                    /\ wt'[k] = wt[k]]_vars

\* --------------------------------------------------------------------- C17
\* The most recent comment of issue k contains the text.
LastContains(k, text) ==
    comments[k] # <<>> /\ ContainsText(comments[k][Len(comments[k])], text)

\* C17: in the compensation, no comment is posted when the most recent comment of
\* the issue already contains the error message; otherwise the one error comment is
\* posted (nothing is added only if a call failed).
C17_ErrorCommentDedup ==
    [][\A w \in Workers :
          LET k == Key(w)
          IN StepsFrom(w, "compComment") =>
                 IF LastContains(k, wret[w])
                 THEN comments'[k] = comments[k]
                 ELSE \/ comments'[k] = Append(comments[k], ErrorComment(wret[w]))
                      \/ ~CalledOk /\ comments'[k] = comments[k]]_vars

\* --------------------------------------------------------------------- C18
\* The listings of issues the process holds: the poller's current listing, the
\* queued jobs and the jobs the workers run.
Observations ==
    {fetched[i] : i \in 1..Len(fetched)} \cup {jobs[i] : i \in 1..Len(jobs)}
        \cup {wjob[w] : w \in {v \in Workers : wjob[v] # NoIssue}}

\* C18: the number of error-sentinel comments of an issue never decreases, and no
\* listing of the issue shows more of them than the issue has now: the counts seen
\* by successive polls are non-decreasing, before and after the issue is marked
\* failed.
C18_SentinelMonotone ==
    /\ [](\A o \in Observations : countBotErrors(o) <= CountSentinels(comments[o.key]))
    /\ [][\A k \in Issues :
              CountSentinels(comments'[k]) >= CountSentinels(comments[k])]_vars

\* C18 witness: the second poll lists an issue that had no comment at the first
\* poll and sees one error sentinel, posted by the failed run in between.
C18_Witness ==
    /\ ticks = 2
    /\ ppc = "issue"
    /\ fetched # <<>>
    /\ fetched[1].key = "r1#1"
    /\ hist.fin["r1#1"] = 1
    /\ hist.out["r1#1"] = "err"
    /\ countBotErrors(fetched[1]) = 1

\* --------------------------------------------------------------------- C19
\* The listed label set contains in-progress, done or failed.
Blocked(issue) == issue.labels \cap {WIPLabel, DoneLabel, FailedLabel} # {}

\* C19: the poller passes over a listed issue whose labels contain in-progress, done
\* or failed, whatever else they contain: it goes on to the next issue of the list
\* with the tracker and the queue untouched; so the issue it is sending or marking
\* failed, and every queued job, was listed without these labels.
C19_PollerSkipsBlocked ==
    /\ [](/\ ppc \in {"send", "ceilAdd", "ceilRm"} => ~Blocked(fetched[pidx])
          /\ \A i \in 1..Len(jobs) : ~Blocked(jobs[i]))
    /\ [][(ppc = "issue" /\ pidx <= Len(fetched) /\ Blocked(fetched[pidx])
              /\ PollerMoves) =>
             (ppc' = "issue" /\ pidx' = pidx + 1 /\ UNCHANGED <<inflight, jobs>>)]_vars

\* C19 witness: the poller has passed over an issue listed with ready and done (the
\* removal of ready failed in the run that finished it): its key is free and no job
\* exists for it.
C19_Witness ==
    /\ ppc = "issue"
    /\ pidx = 2
    /\ fetched[1].labels = {IssueLabel, DoneLabel}
    /\ fetched[1].key \notin inflight
    /\ jobs = <<>>
    /\ \A w \in Workers : wjob[w] = NoIssue

\* --------------------------------------------------------------------- C20
\* The poller is blocked in its send: it holds the key of the issue and the buffer
\* of the job queue is full.
SendBlocked == ppc = "send" /\ Len(jobs) >= QueueCap

\* C20: when the context is cancelled while the poller is blocked in the send, the
\* poller's step is the ctx.Done() case: it releases the key of the issue, leaves
\* the queue as it is (the issue is not enqueued) and returns from the tick.
C20_CancelledSend ==
    [][(SendBlocked /\ cancelled /\ PollerMoves) =>
          /\ inflight' = inflight \ {fetched[pidx].key}
          /\ jobs' = jobs
          /\ hist'.enq = hist.enq
          /\ hist'.dropped = hist.dropped \cup {fetched[pidx].key}
          /\ ppc' = "idle"
          /\ fetched' = <<>>]_vars

\* C20 witness: the tick has returned through the ctx.Done() case with the queue
\* still full: the issue it was sending was never enqueued and its key is free.
C20_Witness ==
    \E k \in hist.dropped :
        /\ cancelled
        /\ ppc = "idle"
        /\ Len(jobs) = QueueCap
        /\ k \notin inflight
        /\ hist.enq[k] = 0
        /\ \A i \in 1..Len(jobs) : jobs[i].key # k

\* --------------------------------------------------------------------- C21
\* C21: a worker that receives a job while the context is cancelled does not call
\* processIssue for it (no run is counted, the remote state and the worktrees are
\* untouched): it releases the key of the job and returns.
C21_CancelledDequeue ==
    [][\A w \in Workers :
          (wpc[w] = "idle" /\ cancelled /\ jobs # <<>> /\ wpc'[w] # "idle") =>
              /\ wpc'[w] = "exited"
              /\ jobs' = Tail(jobs)
              /\ inflight' = inflight \ {Head(jobs).key}
              /\ wjob'[w] = NoIssue
              /\ hist'.runs = hist.runs
              /\ UNCHANGED <<remoteVars, wt>>]_vars

\* C21 witness: the queue is not closed yet and a worker has exited: it received,
\* after the cancellation, a job that was enqueued once and never run; the key of
\* that job is free.
C21_Witness ==
    \E w \in Workers, k \in Issues :
        /\ cancelled
        /\ ~closed
        /\ wpc[w] = "exited"
        /\ hist.enq[k] = 1
        /\ hist.runs[k] = 0
        /\ k \notin inflight
        /\ \A i \in 1..Len(jobs) : jobs[i].key # k

\* --------------------------------------------------------------------- C22
\* The process has shut down: the poller has returned, the queue is closed, every
\* worker has returned and main has returned from wg.Wait().
ShutDown ==
    /\ ppc = "returned"
    /\ closed
    /\ \A w \in pool : wpc[w] = "exited"
    /\ mainpc = "stopped"

\* C22: once the context is cancelled the process shuts down; the queue is closed
\* only when the poller has returned, nothing is sent on the closed queue, and main
\* returns only when every worker has returned.
C22_ShutdownTerminates ==
    /\ cancelled ~> ShutDown
    /\ [](closed => ppc = "returned")
    /\ [](mainpc = "stopped" => \A w \in pool : wpc[w] = "exited")
    /\ [][closed => Len(jobs') <= Len(jobs)]_vars

\* C22 witness: the context was cancelled and the process has shut down, a
\* pipeline having been called before.
C22_Witness ==
    /\ cancelled
    /\ ShutDown
    /\ \E k \in Issues : hist.runs[k] > 0 /\ hist.out[k] # "none"

\* --------------------------------------------------------------------- C23
\* C23: a failed listing of one repository does not end the tick: the poller goes
\* on to the next configured repository within the same tick, it leaves the tick
\* only at the end of the repository list (or on cancellation), and the next
\* repository is then listed in that tick unless the context is cancelled first.
C23_FetchErrorSkipsRepository ==
    /\ [][hist'.pollErr # hist.pollErr =>
             /\ ppc' = "repo"
             /\ prepo' = prepo + 1
             /\ ticks' = ticks
             /\ UNCHANGED <<jobs, inflight>>]_vars
    /\ [][(ppc = "repo" /\ ppc' = "idle") => (prepo > Len(Repos) \/ cancelled)]_vars
    /\ \A i \in 1..(Len(Repos) - 1) :
           (<<ticks, Repos[i]>> \in hist.pollErr /\ ppc = "repo" /\ prepo = i + 1)
             ~> \/ cancelled
                \/ ppc = "issue" /\ prepo = i + 1
                \/ <<ticks, Repos[i + 1]>> \in hist.pollErr

\* C23 witness: in the first tick the listing of r1 failed and the ready issue of
\* r2 was enqueued.
C23_Witness ==
    /\ ticks = 1
    /\ <<1, "r1">> \in hist.pollErr
    /\ hist.enq["r2#1"] = 1
    /\ ~cancelled


\* ---------------------------------------------------------------------------
\* C24: triage replies once
\* ---------------------------------------------------------------------------

\* The number of triage replies among the comments cs.
TriageReplyCount(cs) == Cardinality({i \in 1..Len(cs) : cs[i].kind = "triage"})

\* C24: with triage enabled, across the poll ticks an issue receives at most one
\* triage reply, and an issue that has received its reply and the poller has left
\* in an earlier tick is not replied to again.
C24_TriageRepliesOnce ==
    \A k \in Issues : TriageReplyCount(comments[k]) <= 1


\* ---------------------------------------------------------------------------
\* C25: triage leaves labelled issues alone
\* ---------------------------------------------------------------------------

\* Triage is looking at issue k of its list.
TriageAt(k) == ppc = "triage" /\ pidx <= Len(fetched) /\ fetched[pidx].key = k

\* C25: triage posts a comment only on an issue that, as listed, carries none of
\* the six reserved labels and on which hasBotComment is false; on a listed issue
\* without a reserved label on which hasBotComment is true its step posts nothing
\* and changes the labels at most by adding triaged.
C25_TriageRespectsLabels ==
    [][\A k \in Issues :
          /\ comments'[k] # comments[k] =>
                /\ TriageAt(k)
                /\ fetched[pidx].labels \cap BotLabels = {}
                /\ ~hasBotComment(fetched[pidx])
          /\ (/\ TriageAt(k)
              /\ fetched[pidx].labels \cap BotLabels = {}
              /\ hasBotComment(fetched[pidx])) =>
                /\ comments' = comments
                /\ labels' \in {labels, [labels EXCEPT ![k] = @ \cup {TriageLabel}]}]_vars

\* Triage has passed an issue that had a bot comment and no label, which now carries
\* triaged and no further comment, and a labelled issue, which has no comment.
C25_Witness ==
    /\ ticks = 1
    /\ labels["r1#1"] = {TriageLabel}
    /\ comments["r1#1"] = <<NoChangeComment>>
    /\ labels["r2#1"] = {IssueLabel}
    /\ comments["r2#1"] = <<>>
    /\ hist.enq["r2#1"] = 1


\* ---------------------------------------------------------------------------
\* C26: the bot marker in posted comments
\* ---------------------------------------------------------------------------

\* C26: every comment a step posts on an issue (error comment, no-change comment,
\* PR-link comment, triage reply) contains the bot marker.
C26_PostedCommentsMarked ==
    [][\A k \in Issues :
          Len(comments'[k]) > Len(comments[k]) =>
              BodyContains(comments'[k][Len(comments'[k])], botCommentMarker)]_vars

\* ---------------------------------------------------------------------------
\* C27: hasBotComment and the marker
\* ---------------------------------------------------------------------------

\* Some comment body of the issue contains the bot marker.
HasMarkedComment(issue) ==
    \E i \in 1..Len(issue.comments) : BodyContains(issue.comments[i], botCommentMarker)

\* C27: for the issue triage is looking at, hasBotComment is true exactly when some
\* comment body contains the bot marker: a comment that only mentions the bot's name
\* does not make it true, and an issue without comments yields false.
C27_HasBotCommentIffMarker ==
    \A k \in Issues :
        TriageAt(k) => (hasBotComment(fetched[pidx]) <=> HasMarkedComment(fetched[pidx]))


\* ---------------------------------------------------------------------------
\* C28: slugify applied twice
\* ---------------------------------------------------------------------------

\* C28: slugify is idempotent: the slug processIssue derives from a title is left
\* unchanged by slugify.
C28_SlugifyIdempotent ==
    \A w \in Workers :
        wpc[w] = "context" => slugify(wjob[w].slug) = wjob[w].slug

\* ---------------------------------------------------------------------------
\* C29: branchName
\* ---------------------------------------------------------------------------

\* The decimal form of the issue numbers of ContextSpec.
Decimal(n) == IF n = 1 THEN <<"1">> ELSE IF n = 2 THEN <<"2">> ELSE <<"1", "2">>

\* C29: the branch of a work context is the same for two issues with the same
\* number and title, whatever else differs, and for a title whose slug is empty
\* (the empty title included) it is "issue-<number>-fix".
C29_BranchName ==
    \A w \in Workers :
        wpc[w] = "context" =>
            /\ \A v \in Workers :
                  (/\ wpc[v] = "context"
                   /\ wjob[v].number = wjob[w].number
                   /\ wjob[v].title = wjob[w].title) => wjob[v].branch = wjob[w].branch
            /\ slugify(wjob[w].title) = <<>> =>
                  wjob[w].branch = <<"i", "s", "s", "u", "e", "-">>
                                      \o Decimal(wjob[w].number) \o <<"-", "f", "i", "x">>

\* Two workers hold issue 12 of the two repositories, one with the empty title, the
\* other with a title of punctuation only: both branches are "issue-12-fix".
C29_Witness ==
    /\ wpc["w1"] = "context" /\ wpc["w2"] = "context"
    /\ wjob["w1"].repo # wjob["w2"].repo
    /\ wjob["w1"].number = 12 /\ wjob["w2"].number = 12
    /\ wjob["w1"].title = <<>>
    /\ wjob["w2"].title = <<"!", "!">>
    /\ wjob["w1"].branch = <<"i", "s", "s", "u", "e", "-", "1", "2", "-", "f", "i", "x">>
    /\ wjob["w2"].branch = wjob["w1"].branch

\* ---------------------------------------------------------------------------
\* C30: one worktree directory per issue key
\* ---------------------------------------------------------------------------

\* C30: two pipelines that run at the same time hold distinct issue keys, and the
\* worktree directories of two distinct issue keys differ, whatever the titles.
C30_DisjointWorktrees ==
    \A w, v \in Workers :
        (w # v /\ wpc[w] = "context" /\ wpc[v] = "context") =>
            /\ wjob[w].key # wjob[v].key
            /\ wjob[w].wtDir # wjob[v].wtDir

\* Two pipelines run on issues with the same number and title, hence the same
\* branch, of different repositories.
C30_Witness ==
    /\ wpc["w1"] = "context" /\ wpc["w2"] = "context"
    /\ wjob["w1"].repo = "r1" /\ wjob["w2"].repo = "r2"
    /\ wjob["w1"].number = wjob["w2"].number
    /\ wjob["w1"].title = wjob["w2"].title
    /\ wjob["w1"].branch = wjob["w2"].branch
    /\ wjob["w1"].title # <<>>


\* ---------------------------------------------------------------------------
\* C31: countBotErrors
\* ---------------------------------------------------------------------------

\* C31: for the issue the poller is looking at, countBotErrors is the number of the
\* issue's comments whose body contains the error sentinel; the other comments (of
\* users, with or without the bot's name, and the bot's other comments) do not count.
C31_CountBotErrors ==
    (ppc = "issue" /\ pidx <= Len(fetched)) =>
        countBotErrors(fetched[pidx]) =
            Cardinality({i \in 1..Len(fetched[pidx].comments) :
                            HasSentinel(fetched[pidx].comments[i])})

\* The poller has counted two error comments among the four comments of r1#1 and,
\* two being below the retry limit, has enqueued the issue.
C31_Witness ==
    /\ Len(comments["r1#1"]) = 4
    /\ Cardinality({i \in 1..4 : HasSentinel(comments["r1#1"][i])}) = 2
    /\ hist.enq["r1#1"] = 1


\* ---------------------------------------------------------------------------
\* C32: the agent runs only on a worktree without changes
\* ---------------------------------------------------------------------------

\* C32: a run that passes checkChanges goes on to the agent if the porcelain status
\* of the worktree is empty and to the commit, without the agent, if a prior run left
\* uncommitted changes; the agent is invoked from that position and from no other.
C32_AgentGate ==
    [][LET k == Key("w1")
       IN /\ (StepsFrom("w1", "prep") /\ wpc'["w1"] # "compComment") =>
                 /\ wpc'["w1"] = (IF wt[k] = "dirty" THEN "commit" ELSE "agent")
                 /\ hist'.agent = hist.agent
          /\ StepsFrom("w1", "agent") => hist'.agent[k] = hist.agent[k] + 1
          /\ hist'.agent # hist.agent =>
                 /\ wpc["w1"] = "agent"
                 /\ wt[k] = "clean"]_vars

\* A run on a worktree with uncommitted changes of a prior run has committed them
\* without invoking the agent.
C32_Witness ==
    /\ wpc["w1"] = "push"
    /\ hist.agent["r1#1"] = 0
    /\ wt["r1#1"] = "clean"


\* ---------------------------------------------------------------------------
\* C33: the order of the side effects of a run
\* ---------------------------------------------------------------------------

\* C33: in every run the agent is invoked only with in-progress on the issue, the
\* push is reached only from a successful commit step and pushes a committed
\* worktree, a review request is created only with the branch pushed, and done is
\* added only with the URL of an existing review request in hand.
C33_SideEffectOrder ==
    [][\A k \in Issues :
          /\ hist'.agent[k] # hist.agent[k] => WIPLabel \in labels[k]
          /\ (wpc'["w1"] = "push" /\ wpc["w1"] # "push" /\ Key("w1") = k) =>
                 /\ wpc["w1"] = "commit"
                 /\ wt'[k] = "clean"
          /\ pushed'[k] # pushed[k] =>
                 (wpc["w1"] = "push" /\ Key("w1") = k /\ wt[k] = "clean")
          /\ prs'[k] # prs[k] =>
                 (wpc["w1"] = "ensurePR" /\ Key("w1") = k /\ pushed[k] = 1)
          /\ (DoneLabel \in labels'[k] /\ DoneLabel \notin labels[k]) =>
                 /\ Key("w1") = k
                 /\ wurl["w1"] = PRUrl(k, 1)
                 /\ prs[k] = 1
                 /\ pushed[k] = 1]_vars

\* A run has gone through all of its side effects: the agent ran once, the branch is
\* pushed, the review request exists, the issue carries done.
C33_Witness ==
    /\ hist.agent["r1#1"] = 1
    /\ pushed["r1#1"] = 1
    /\ prs["r1#1"] = 1
    /\ DoneLabel \in labels["r1#1"]
    /\ wpc["w1"] = "returned"


\* ---------------------------------------------------------------------------
\* C34: the retry ceiling
\* ---------------------------------------------------------------------------

\* C34: an issue of which no run has returned without error is run at most
\* MaxRetries times, whatever the errors its runs fail with (the same error every
\* time included): by then the poller has labelled it failed and no tick enqueues it.
C34_RetryCeiling ==
    \A k \in Issues : hist.ok[k] = 0 => hist.runs[k] <= MaxRetries


\* ---------------------------------------------------------------------------
\* C35: a lifecycle label at every point of a run
\* ---------------------------------------------------------------------------

\* C35: at every point between two external calls of a pipeline run, where the
\* process may stop, the issue carries at least one of ready, in-progress, done,
\* needs-info, failed.
C35_LabelAtEveryCrashPoint ==
    \A w \in pool :
        wpc[w] \notin {"idle", "exited", "returned"} =>
            labels[Key(w)] \cap
                {IssueLabel, WIPLabel, DoneLabel, NeedsInfoLabel, FailedLabel} # {}


\* ---------------------------------------------------------------------------
\* C36: one job per key
\* ---------------------------------------------------------------------------

\* The number of jobs for key k: entries of the job queue and jobs held by workers.
JobCount(k) ==
    Cardinality({i \in 1..Len(jobs) : jobs[i].key = k})
        + Cardinality({w \in pool : wpc[w] \notin {"idle", "exited"} /\ wjob[w].key = k})

\* C36: in every state each issue key occurs at most once among the entries of the
\* job queue and the jobs held by workers, and every key that occurs is in the
\* inflight set.
C36_OneJobPerKey ==
    \A k \in Issues :
        /\ JobCount(k) <= 1
        /\ JobCount(k) = 1 => k \in inflight

\* One key waits in the queue and the other is held by a worker, after the poller
\* has met a held key and passed it by.
C36_Witness ==
    /\ \E k \in Issues : jobs = <<Snapshot(k)>> /\ JobCount(k) = 1
    /\ \E w \in pool : wpc[w] \notin {"idle", "exited"} /\ JobCount(wjob[w].key) = 1
    /\ hist.dedup # {}
    /\ inflight = Issues


\* ---------------------------------------------------------------------------
\* C37: no key is held after the shutdown
\* ---------------------------------------------------------------------------

\* C37: once the shutdown has completed (context cancelled, queue closed, every
\* worker returned, main returned) the inflight set is empty.
C37_ShutdownReleasesAll ==
    (cancelled /\ closed /\ mainpc = "stopped" /\ \A w \in pool : wpc[w] = "exited")
        => inflight = {}


\* C37 amended: once the shutdown has completed the inflight set holds exactly the
\* keys of the jobs still in the queue; every other key has been released.
C37_ShutdownKeepsQueuedKeys ==
    (cancelled /\ closed /\ mainpc = "stopped" /\ \A w \in pool : wpc[w] = "exited")
        => inflight = {jobs[i].key : i \in 1..Len(jobs)}

\* The shutdown has completed with a job left in the queue, its key held, after the
\* worker released the key of the job it dequeued.
C37_Witness ==
    /\ cancelled /\ closed /\ mainpc = "stopped"
    /\ \A w \in pool : wpc[w] = "exited"
    /\ Len(jobs) = 1
    /\ inflight = {jobs[1].key}
    /\ hist.enq = [k \in Issues |-> 1]


\* ---------------------------------------------------------------------------
\* C38: a run interrupted by cancellation
\* ---------------------------------------------------------------------------

\* C38: when a run is interrupted because the context is cancelled, processIssue
\* returns with in-progress removed from the issue and ready restored.
C38_InterruptedRunCompensated ==
    [][\A k \in Issues :
          (/\ cancelled
           /\ Key("w1") = k
           /\ wpc["w1"] \notin {"idle", "exited", "returned"}
           /\ wpc'["w1"] = "returned") =>
              /\ WIPLabel \notin labels'[k]
              /\ IssueLabel \in labels'[k]]_vars


\* ---------------------------------------------------------------------------
\* C39: the reconciler's review-request query
\* ---------------------------------------------------------------------------

\* C39: recoverStaleIssues takes the reset-to-ready branch for an in-progress
\* issue only when no review request exists on its branch, also when the
\* review-request query fails.
C39_ResetOnlyWithoutPR ==
    mainpc \in {"recResetRm", "recResetAdd"} => prs[Head(mlist).key] = 0


\* ---------------------------------------------------------------------------
\* C40: progress without cancellation
\* ---------------------------------------------------------------------------

\* pollLoop: the ticker fires again and again (ticks counts up to MaxTicks).
RecurringTick ==
    /\ ppc \in {"first", "idle"}
    /\ ppc' = "repo"
    /\ prepo' = 1
    /\ ticks' = IF ticks < MaxTicks THEN ticks + 1 ELSE ticks
    /\ UNCHANGED <<trackerVars, remoteVars, wt, jobs, closed, cancelled, budget,
                   mainVars, fetched, pidx, workerVars, hist>>

\* pollLoop and poll, the signal never arriving.
ProgressPoller ==
    \/ RecurringTick
    \/ PollReturn
    \/ PollFetch
    \/ PollNextRepo
    \/ PollIssue
    \/ PollCeilAdd
    \/ PollCeilRm
    \/ PollSend

\* worker, the signal never arriving.
ProgressWorker(w) ==
    \/ WorkerDequeue(w)
    \/ WorkerRelease(w)
    \/ Pipeline(w)

\* The hosting service when pollLoop starts: two ready issues and no failing call
\* (a job waits behind another), or one issue at the retry ceiling, one ready
\* issue and up to MaxFail calls that fail transiently (a failed run is retried).
ProgressBoots ==
    {[issues |-> [k \in Issues |-> Fresh], fail |-> 0],
     [issues |-> [k \in Issues |-> IF k = "r1#1" THEN AtCeiling ELSE Fresh],
      fail |-> MaxFail]}

\* The engine after the startup with one worker, the context never cancelled.
ProgressInit ==
    \E b \in ProgressBoots :
        /\ inflight = {}
        /\ oplog = <<>>
        /\ labels = [k \in Issues |-> b.issues[k].labels]
        /\ comments = [k \in Issues |-> b.issues[k].comments]
        /\ prs = [k \in Issues |-> b.issues[k].prs]
        /\ pushed = [k \in Issues |-> b.issues[k].pushed]
        /\ hist = [bootWip |-> {},
                   bootPR |-> {},
                   labelled |-> {Repos[i] : i \in 1..Len(Repos)},
                   recovered |-> {Repos[i] : i \in 1..Len(Repos)},
                   enq |-> [k \in Issues |-> 0],
                   runs |-> [k \in Issues |-> 0],
                   fin |-> [k \in Issues |-> 0],
                   agent |-> [k \in Issues |-> 0],
                   dedup |-> {},
                   out |-> [k \in Issues |-> "none"],
                   ok |-> [k \in Issues |-> 0],
                   first |-> [k \in Issues |-> NoRemote],
                   dropped |-> {},
                   pollErr |-> {}]
        /\ repoLabels = [i \in 1..Len(Repos) |-> BotLabels]
        /\ wt = [k \in Issues |-> "absent"]
        /\ jobs = <<>>
        /\ closed = FALSE
        /\ cancelled = FALSE
        /\ budget = b.fail
        /\ pool = {"w1"}
        /\ mainpc = "pollLoop"
        /\ mrepo = 1
        /\ mlist = <<>>
        /\ started = TRUE
        /\ ppc = "first"
        /\ prepo = 1
        /\ fetched = <<>>
        /\ pidx = 1
        /\ ticks = 0
        /\ wpc = [w \in Workers |-> "idle"]
        /\ wjob = [w \in Workers |-> NoIssue]
        /\ wret = [w \in Workers |-> ""]
        /\ wurl = [w \in Workers |-> NoUrl]

ProgressNext == ProgressPoller \/ ProgressWorker("w1")

\* The scheduler runs the poller and the worker whenever they can take a step,
\* and the ticker keeps firing.
ProgressFairness ==
    /\ WF_vars(ProgressPoller)
    /\ WF_vars(ProgressWorker("w1"))

ProgressSpec == ProgressInit /\ [][ProgressNext]_vars /\ ProgressFairness

\* Issue k is open and eligible: ready, none of in-progress / done / failed, and
\* fewer than MaxRetries error comments.
Eligible(k) ==
    /\ IssueLabel \in labels[k]
    /\ labels[k] \cap {WIPLabel, DoneLabel, FailedLabel} = {}
    /\ CountSentinels(comments[k]) < MaxRetries

\* C40: without cancellation and with ticks recurring, every eligible issue is
\* eventually dequeued by a worker and its pipeline runs to its end (the worker
\* comes back from processIssue on that issue), and a poller blocked on a full
\* queue is eventually unblocked.
C40_EligibleIssuesProcessed ==
    /\ \A k \in Issues :
           Eligible(k) ~> (wpc["w1"] = "returned" /\ Key("w1") = k)
    /\ SendBlocked ~> ~SendBlocked

\* C40 witness: a ready issue whose first run failed and was compensated has been
\* enqueued again in a later tick, and the worker has come back from its second
\* run.
C40_Witness ==
    \E k \in Issues :
        /\ hist.fin[k] = 1
        /\ hist.enq[k] = 2
        /\ wpc["w1"] = "returned"
        /\ Key("w1") = k
        /\ ~cancelled
====
